---- MODULE Spec2Model ----
(***************************************************************************)
(* A model of ecc2cursor's translation engine: the naming policy, the      *)
(* stateless scanner, clean, the category translators, the translation    *)
(* pass (runSync), the MCP registry merge, the header codec, the content   *)
(* transforms and the description resolution; and of what runs it: the     *)
(* temp clone, the first-time wizard and the returning-user menu.          *)
(*                                                                         *)
(* Names are sequences of tokens, split at every hyphen (the hyphen is a   *)
(* token of its own), so that startsWith and the "{prefix}-{name}"         *)
(* concatenation are computed, not assumed.  The token ".md" stands for    *)
(* the literal file suffix.                                                *)
(***************************************************************************)
EXTENDS Integers, Sequences, FiniteSets, TLC

VARIABLES
    repo,         \* the source tree (the temp clone): its documents
    userPrefix,   \* the prefix the user runs the tool with (--prefix, --no-prefix)
    fs,           \* the target .cursor/ tree: path -> node
    mcpFile,      \* the content of the target mcp.json
    srcMcp,       \* the source tree's mcp-configs/mcp-servers.json
    mcpInstalled, \* history: server names some merge wrote into mcp.json
    installedAs,  \* history: the entries the naming policy wrote, with prefix and base name
    content,      \* a document's text: a sequence of tokens (characters and whole words)
    header,       \* the header fields a translator gives the document it builds
    cursorDir,    \* the target directory the context is made of (createContext)
    step,         \* runWizard: the step the wizard's loop is at
    history,      \* runWizard: the stack of steps advance() pushed
    wizardState,  \* runWizard: state, the wizard state (the clone it holds, the categories chosen)
    user,         \* the person at the prompts: the steps answered, whether only Esc is answered now
    tmpDirs,      \* the temp directories on disk (mkdtemp)
    activeTmpDirs,\* repo.ts: the tracked temp directories
    pc,           \* the position of each running call
    local,        \* the local variables of each running call
    scanResults,  \* runMenu: the scan results the menu works with
    last          \* the last operation: its arguments and its result

\* The variables of the interactive front end and of calls in progress.
procVars == <<step, history, wizardState, user, tmpDirs, activeTmpDirs, pc, local, scanResults>>

vars == <<repo, userPrefix, fs, mcpFile, srcMcp, mcpInstalled, installedAs, content, header,
         cursorDir, procVars, last>>

\* The calls that may be in progress at once.
Procs == {"p1", "p2"}


----------------------------------------------------------------------------
(* Bounds *)

\* The largest number of entries directly under skills/, agents/ and commands/
\* that the environment and the naming write put into the target together.
MaxEntries == 2

\* The largest number of servers in the source service file.
MaxServers == 2

----------------------------------------------------------------------------
(* Strings *)

Dash == <<"-">>
MdSuffix == <<".md">>

\* String.prototype.startsWith
StartsWith(s, pre) ==
    /\ Len(pre) <= Len(s)
    /\ SubSeq(s, 1, Len(pre)) = pre

\* prefixName(prefix, name): `${prefix}-${name}` when prefix is truthy, else name.
prefixName(prefix, name) ==
    IF prefix # <<>> THEN prefix \o Dash \o name ELSE name

----------------------------------------------------------------------------
(* The target tree *)

Roots == {"skills", "agents", "commands"}

\* createContext: skillsDir, agentsDir, commandsDir are the three children of cursorDir.
TopDir(root) == [root |-> root, name |-> <<>>, rel |-> <<>>]

\* An entry directly under one of the three directories.
Entry(root, name) == [root |-> root, name |-> name, rel |-> <<>>]

\* A path inside a skill container, e.g. <<"SKILL.md">> or <<"rules", "x.md">>.
Inside(name, rel) == [root |-> "skills", name |-> name, rel |-> rel]

DirNode == [kind |-> "dir", by |-> "dir", of |-> <<>>, p |-> <<>>]
UserFile == [kind |-> "file", by |-> "user", of |-> <<>>, p |-> <<>>]

\* join(homedir(), '.cursor'): the default target directory, as path segments;
\* "~" is the home directory.
HomeCursor == <<"~", ".cursor">>

\* createContext(cursorDir)
createContext(dir) ==
    [cursorDir |-> dir, skillsDir |-> dir \o <<"skills">>, agentsDir |-> dir \o <<"agents">>,
     commandsDir |-> dir \o <<"commands">>, mcpFile |-> dir \o <<"mcp.json">>]

\* A document a translator wrote: which translator, from which source document,
\* under which prefix (the content is a function of exactly these).
Doc(by, of, p) == [kind |-> "file", by |-> by, of |-> of, p |-> p]

EmptyTarget == [q \in {} |-> DirNode]

\* existsSync
Exists(f, path) == path \in DOMAIN f

IsDir(f, path) == Exists(f, path) /\ f[path].kind = "dir"

\* readdirSync(dir): the names of the entries directly under it.
readdir(f, root) ==
    {q.name : q \in {r \in DOMAIN f : r.root = root /\ r.name # <<>> /\ r.rel = <<>>}}

\* The number of entries directly under the three directories.
EntryCount(f) ==
    Cardinality({r \in DOMAIN f : r.name # <<>> /\ r.rel = <<>>})

\* f with the given paths set to the given nodes.
Put(f, upd) ==
    [q \in (DOMAIN f) \cup (DOMAIN upd) |-> IF q \in DOMAIN upd THEN upd[q] ELSE f[q]]

\* rm(join(dir, name), {recursive: true, force: true}) for every name in names.
RemoveEntries(f, root, names) ==
    [q \in {r \in DOMAIN f : ~(r.root = root /\ r.name \in names)} |-> f[q]]

----------------------------------------------------------------------------
(* The MCP registry: mcp.json and the source service file *)

\* A server definition.  marks: the credential-shaped fragments that occur in
\* its serialized form; env: the keys of its env mapping; description "" is no
\* description.  falsy marks a JSON value that is not an object at all and is
\* falsy in a condition (null, false, 0, "").
Config(command, description, marks, env) ==
    [falsy |-> FALSE, command |-> command, description |-> description,
     marks |-> marks, env |-> env]

FalsyValue ==
    [falsy |-> TRUE, command |-> "", description |-> "", marks |-> {}, env |-> {}]

\* JSON null as a server definition in the source file: reading its env
\* property throws.
NullValue ==
    [falsy |-> TRUE, command |-> "null", description |-> "", marks |-> {}, env |-> {}]

TOKEN_REQUIRED_MCP_SERVERS ==
    {"github", "gitlab", "bitbucket", "linear", "jira", "asana", "slack", "discord",
     "sentry", "datadog", "pagerduty", "stripe", "twilio", "sendgrid", "supabase",
     "firebase", "aws", "vercel", "netlify", "railway", "openai", "anthropic",
     "algolia", "elasticsearch", "redis", "mongodb", "postgres", "mysql"}

\* The env keys authEnvPatterns (/key|token|secret|password|auth|api/i) matches,
\* among the keys the model uses.
AuthEnvKeys == {"API", "GH_TOKEN"}

\* requiresAuth: some pattern matches the serialized config, or some env key
\* matches authEnvPatterns.
requiresAuth(serverConfig) ==
    \/ serverConfig.marks # {}
    \/ /\ serverConfig.env # {}
       /\ \E k \in serverConfig.env : k \in AuthEnvKeys

\* Names every object inherits from Object.prototype: obj[name] is truthy for
\* them although name is no key of obj.
InheritedNames == {"constructor", "toString", "valueOf", "hasOwnProperty", "__proto__"}

\* getAvailableServers' loop with the denylist test forgotten.
AvailableOf_noDenylist(servers) ==
    SelectSeq(servers, LAMBDA s : ~requiresAuth(s.config))

\* getAvailableServers, after the file was read and parsed: the entries, in the
\* file's order, that are neither denylisted nor credential-requiring.
AvailableOf(servers) ==
    SelectSeq(servers, LAMBDA s :
        /\ s.name \notin TOKEN_REQUIRED_MCP_SERVERS
        /\ ~requiresAuth(s.config))

\* getAvailableServers: [] when the file is missing; JSON.parse throws on an
\* invalid file (threw); srcConfig.mcpServers || {} otherwise.  The denylist is
\* tested first; requiresAuth throws on a null definition.
getAvailableServers(src) ==
    CASE src.state = "missing" -> [threw |-> FALSE, list |-> <<>>]
      [] src.state = "invalid" -> [threw |-> TRUE, list |-> <<>>]
      [] \E i \in 1..Len(src.servers) :
            /\ src.servers[i].name \notin TOKEN_REQUIRED_MCP_SERVERS
            /\ src.servers[i].config = NullValue -> [threw |-> TRUE, list |-> <<>>]
      [] OTHER -> [threw |-> FALSE, list |-> AvailableOf(src.servers)]

NoSelection == [kind |-> "none", names |-> {}]
AllSelection == [kind |-> "all", names |-> {}]
ListSelection(names) == [kind |-> "list", names |-> names]

\* resolveSelectedServers with 'all' resolved like an explicit empty list.
resolveSelectedServers_allEmpty(available, selection) ==
    IF selection.kind = "none" THEN <<>>
    ELSE SelectSeq(available, LAMBDA s : s.name \in selection.names)

\* resolveSelectedServers
resolveSelectedServers(available, selection) ==
    IF selection.kind = "none" THEN <<>>
    ELSE IF selection.kind = "all" THEN available
    ELSE SelectSeq(available, LAMBDA s : s.name \in selection.names)

\* The registry file.  state: missing, garbage (not JSON), scalar (JSON null, a
\* number, a string, a boolean), array (a JSON array), object.  For an object,
\* servers is what its mcpServers member is: absent (missing or falsy), map (an
\* object), array, scalar (a truthy number, string or boolean); map is that
\* object's members; extra: the file has other top-level members; canonical: the
\* text is exactly what writeMcpConfig produces for the value.
RegistryFile(state, servers, map, extra, canonical) ==
    [state |-> state, servers |-> servers, map |-> map, extra |-> extra,
     canonical |-> canonical]

NoMap == [n \in {} |-> FalsyValue]

MissingFile == RegistryFile("missing", "absent", NoMap, FALSE, FALSE)

\* The value readMcpConfig returns: root is "object" or "array" (an array is an
\* object, and keeps the mcpServers property it is given until it is serialized).
EmptyConfig == [root |-> "object", servers |-> "map", map |-> NoMap, extra |-> FALSE]

\* readMcpConfig: { mcpServers: {} } when the file is missing, is not JSON, or
\* reading a property of the parsed value throws (null) or setting one does (a
\* primitive, in strict mode); otherwise the parsed value, with mcpServers set
\* to {} when it is missing or falsy.
readMcpConfig(file) ==
    CASE file.state \in {"missing", "garbage", "scalar"} -> EmptyConfig
      [] file.state = "array" ->
            [root |-> "array", servers |-> "map", map |-> NoMap, extra |-> FALSE]
      [] OTHER ->
            [root |-> "object",
             servers |-> IF file.servers = "absent" THEN "map" ELSE file.servers,
             map |-> IF file.servers = "map" THEN file.map ELSE NoMap,
             extra |-> file.extra]

\* writeMcpConfig: JSON.stringify(config, null, 2) and a newline.  An array
\* serializes as its elements only: an mcpServers property set on it, or on an
\* array-valued mcpServers, is not written.
writeMcpConfig(file, config) ==
    IF config.root = "array"
    THEN RegistryFile("array", "absent", NoMap, FALSE, TRUE)
    ELSE RegistryFile("object", config.servers,
                      IF config.servers = "map" THEN config.map ELSE NoMap,
                      config.extra, TRUE)

\* The condition cursorMcp.mcpServers[name]: the value's truthiness.
HasServer(config, name) ==
    \/ name \in InheritedNames
    \/ /\ config.servers = "map"
       /\ name \in DOMAIN config.map
       /\ ~config.map[name].falsy

\* cleanConfig: a copy without the description, npx replaced by bunx.
cleanConfig(serverConfig) ==
    [serverConfig EXCEPT
        !.description = "",
        !.command = IF serverConfig.command = "npx" THEN "bunx" ELSE serverConfig.command]

\* cursorMcp.mcpServers[name] = value.  On an array the property is set (and
\* lost when serialized); on a primitive the assignment throws in strict mode.
SetServer(config, name, value) ==
    IF config.servers = "map"
    THEN [config EXCEPT !.map =
            [n \in (DOMAIN config.map) \cup {name} |->
                IF n = name THEN value ELSE config.map[n]]]
    ELSE config

MergeState(config, added, skipped, threw, names) ==
    [config |-> config, added |-> added, skipped |-> skipped, threw |-> threw,
     names |-> names]

\* One iteration of translateMcp's loop with the skipped branch not counted.
MergeStep_noSkipCount(st, server, dryRun) ==
    IF st.threw THEN st
    ELSE IF HasServer(st.config, server.name) THEN st
    ELSE IF ~dryRun /\ st.config.servers = "scalar"
    THEN [st EXCEPT !.threw = TRUE]
    ELSE MergeState(
            IF dryRun THEN st.config
            ELSE SetServer(st.config, server.name, cleanConfig(server.config)),
            st.added + 1, st.skipped, FALSE,
            IF dryRun THEN st.names ELSE st.names \cup {server.name})

\* One iteration of translateMcp's loop.
MergeStep(st, server, dryRun) ==
    IF st.threw THEN st
    ELSE IF HasServer(st.config, server.name)
    THEN [st EXCEPT !.skipped = st.skipped + 1]
    ELSE IF ~dryRun /\ st.config.servers = "scalar"
    THEN [st EXCEPT !.threw = TRUE]
    ELSE MergeState(
            IF dryRun THEN st.config
            ELSE SetServer(st.config, server.name, cleanConfig(server.config)),
            st.added + 1, st.skipped, FALSE,
            IF dryRun THEN st.names ELSE st.names \cup {server.name})

RECURSIVE MergeLoop(_, _, _, _)
\* for (const server of toInstall) { ... }
MergeLoop(st, toInstall, i, dryRun) ==
    IF i > Len(toInstall) THEN st
    ELSE MergeLoop(MergeStep(st, toInstall[i], dryRun), toInstall, i + 1, dryRun)

McpResult(threw, added, skipped, wrote, file, names) ==
    [threw |-> threw, added |-> added, skipped |-> skipped, wrote |-> wrote,
     file |-> file, names |-> names]

\* The write condition with the dry-run test forgotten.
ShouldWrite_ignoreDryRun(dryRun, added) == added > 0

\* if (!dryRun && added > 0)
ShouldWrite(dryRun, added) == ~dryRun /\ added > 0

\* The keys of the registry's service map, as JSON.parse(file).mcpServers has them.
RegistryKeys(file) ==
    IF file.state = "object" /\ file.servers = "map" THEN DOMAIN file.map ELSE {}

\* translateMcp: the counts it returns, whether it threw, whether it wrote the
\* registry and the registry file afterwards; names: the servers it added that
\* are in the file it wrote.
translateMcp(src, file, dryRun, selection) ==
    LET avail == getAvailableServers(src) IN
    IF avail.threw THEN McpResult(TRUE, 0, 0, FALSE, file, {})
    ELSE IF Len(avail.list) = 0 THEN McpResult(FALSE, 0, 0, FALSE, file, {})
    ELSE IF selection.kind = "none" THEN McpResult(FALSE, 0, 0, FALSE, file, {})
    ELSE
        LET toInstall == resolveSelectedServers(avail.list, selection)
            cursorMcp == readMcpConfig(file)
            st == MergeLoop(MergeState(cursorMcp, 0, 0, FALSE, {}), toInstall, 1, dryRun)
        IN  IF st.threw THEN McpResult(TRUE, 0, 0, FALSE, file, {})
            ELSE IF ShouldWrite(dryRun, st.added)
            THEN LET written == writeMcpConfig(file, st.config)
                 IN  McpResult(FALSE, st.added, st.skipped, TRUE, written,
                               st.names \cap RegistryKeys(written))
            ELSE McpResult(FALSE, st.added, st.skipped, FALSE, file, {})

----------------------------------------------------------------------------
(* The installed-set scanner and clean *)

\* scanDir with the empty-prefix guard forgotten.
scanDir_noPrefixGuard(f, root, prefix) ==
    IF ~Exists(f, TopDir(root)) THEN {}
    ELSE {n \in readdir(f, root) : StartsWith(n, prefix \o Dash)}

\* scanDir(dir, prefix): [] when the prefix is empty or the directory is
\* missing, else the entries whose name starts with `${prefix}-`.
scanDir(f, root, prefix) ==
    IF prefix = <<>> \/ ~Exists(f, TopDir(root)) THEN {}
    ELSE {n \in readdir(f, root) : StartsWith(n, prefix \o Dash)}

\* scanDirectory(cursorDir, prefix)
scanDirectory(f, prefix) ==
    LET skills == scanDir(f, "skills", prefix)
        agents == scanDir(f, "agents", prefix)
        commands == scanDir(f, "commands", prefix)
    IN  [skills |-> skills, agents |-> agents, commands |-> commands,
         totalFiles |-> Cardinality(skills) + Cardinality(agents) + Cardinality(commands)]

\* runClean's filter: readdirSync(dir).filter(d => d.startsWith(prefixPattern)),
\* under existsSync(dir).
CleanTargets(f, root, prefix) ==
    IF Exists(f, TopDir(root))
    THEN {n \in readdir(f, root) : StartsWith(n, prefix \o Dash)}
    ELSE {}

\* The agents and commands loops of runClean: rm(path, {force: true}) removes a
\* file and throws on a directory (it is not recursive).  readdir's order is the
\* file system's, so the files removed before the throw are any subset.
CleanFiles(f, root, prefix) ==
    LET names == CleanTargets(f, root, prefix)
        dirs == {n \in names : IsDir(f, Entry(root, n))}
    IN  IF dirs = {}
        THEN {[fs |-> RemoveEntries(f, root, names), threw |-> FALSE, removed |-> names]}
        ELSE {[fs |-> RemoveEntries(f, root, R), threw |-> TRUE, removed |-> R] :
                R \in SUBSET (names \ dirs)}

CleanResult(f, threw, skills, agents, commands) ==
    [fs |-> f, threw |-> threw, skills |-> skills, agents |-> agents,
     commands |-> commands,
     totalRemoved |-> Cardinality(skills) + Cardinality(agents) + Cardinality(commands)]

\* runClean(ctx, prefix): the possible outcomes.  A result is returned only when
\* nothing threw; skill entries are removed recursively.
runClean(f, prefix) ==
    IF prefix = <<>> THEN {CleanResult(f, FALSE, {}, {}, {})}
    ELSE
        LET skills == CleanTargets(f, "skills", prefix)
            f1 == RemoveEntries(f, "skills", skills)
        IN  UNION {
                IF a.threw THEN {CleanResult(a.fs, TRUE, {}, {}, {})}
                ELSE {IF c.threw THEN CleanResult(c.fs, TRUE, {}, {}, {})
                      ELSE CleanResult(c.fs, FALSE, skills, a.removed, c.removed) :
                        c \in CleanFiles(a.fs, "commands", prefix)} :
                a \in CleanFiles(f1, "agents", prefix)}

\* cmdClean: refuses to run without a prefix, else runClean.
cmdClean(f, prefix) ==
    IF prefix = <<>> THEN {CleanResult(f, FALSE, {}, {}, {})}
    ELSE runClean(f, prefix)

----------------------------------------------------------------------------
(* The source tree and the file operations of a pass *)

\* A source document.  cat: its source directory; name: its base name (the
\* file name without .md, a skill's directory, a rule's language directory);
\* file: the file inside a language or skill directory; fm: an agent's header
\* name field (<<>>: none), and for hooks/hooks.json what the file holds.
Item(cat, name, file, fm) == [cat |-> cat, name |-> name, file |-> file, fm |-> fm]

CodingStandards == <<"coding", "-", "standards">>

\* A markdown file two directories below its skill directory:
\* skills/<dir>/rules/deep/d.md.
NestedFile == "rules/deep/d.md"

\* Where a file of a skill directory is below it: the other files are
\* directly in the subdirectory rules/.
SubPath(file) ==
    IF file = NestedFile THEN <<"rules", "deep", "d.md">> ELSE <<"rules", file>>

\* The source documents tried, in the order readdir lists them.  The skill
\* document "r.md" is skills/b/rules/r.md.
ItemOrder ==
    << Item("agents", <<"b">>, "", <<>>),
       Item("agents", <<"c">>, "", <<"b">>),
       Item("rules", <<"b">>, "r.md", <<>>),
       Item("rules", <<"common">>, "no-console-log.md", <<>>),
       Item("rules", <<"common">>, "r.md", <<>>),
       Item("commands", <<"b">>, "", <<>>),
       Item("commands", <<"verify">>, "", <<>>),
       Item("skills", <<"b">>, "SKILL.md", <<>>),
       Item("skills", <<"b">>, "r.md", <<>>),
       Item("skills", <<"b">>, NestedFile, <<>>),
       Item("skills", CodingStandards, "SKILL.md", <<>>),
       Item("contexts", <<"b">>, "", <<>>),
       Item("hooks", <<"hooks">>, "hooks.json", <<>>),
       Item("hooks", <<"hooks">>, "hooks.json", <<"x">>) >>

SourceItems == {ItemOrder[i] : i \in 1..Len(ItemOrder)}

\* readdir of a source directory: the documents of the tree in it.  A source
\* directory exists exactly when the tree has a document in it.
Listing(tree, cat) ==
    SelectSeq(ItemOrder, LAMBDA i : i \in tree /\ i.cat = cat)

RECURSIVE Concat(_)
\* The concatenation of a sequence of sequences.
Concat(ss) == IF ss = <<>> THEN <<>> ELSE Head(ss) \o Concat(Tail(ss))

RECURSIVE Distinct(_)
\* The sequence without repetitions, first occurrences kept.
Distinct(s) ==
    IF s = <<>> THEN <<>>
    ELSE LET r == Distinct(SubSeq(s, 1, Len(s) - 1))
             x == s[Len(s)]
         IN  IF \E i \in 1..Len(r) : r[i] = x THEN r ELSE Append(r, x)

\* The directory names of a listing.
DirNames(l) == Distinct([i \in 1..Len(l) |-> l[i].name])

SkipKey(cat, name, file) == [cat |-> cat, name |-> name, file |-> file]

SKIP_FILES ==
    {SkipKey("commands", n, "") :
        n \in {<<"setup", "-", "pm">>, <<"checkpoint">>, <<"verify">>, <<"learn">>,
               <<"skill", "-", "create">>, <<"instinct", "-", "status">>,
               <<"instinct", "-", "import">>, <<"instinct", "-", "export">>,
               <<"evolve">>}}
    \cup {SkipKey("rules", <<"common">>, "hooks.md")}
    \cup {SkipKey("skills", n, "") :
            n \in {<<"continuous", "-", "learning">>,
                   <<"continuous", "-", "learning", "-", "v2">>,
                   <<"strategic", "-", "compact">>, <<"eval", "-", "harness">>,
                   <<"verification", "-", "loop">>, <<"iterative", "-", "retrieval">>,
                   CodingStandards, <<"configure", "-", "ecc">>}}

\* The directory above a path.
Parent(path) ==
    IF path.rel = <<>> THEN TopDir(path.root)
    ELSE IF Len(path.rel) = 1 THEN Entry(path.root, path.name)
    ELSE [path EXCEPT !.rel = SubSeq(path.rel, 1, Len(path.rel) - 1)]

\* A path and the directories above it, outermost first.
Chain(path) ==
    IF path.name = <<>> THEN <<path>>
    ELSE <<TopDir(path.root), Entry(path.root, path.name)>>
            \o [i \in 1..Len(path.rel) |-> [path EXCEPT !.rel = SubSeq(path.rel, 1, i)]]

\* mkdir(path, {recursive: true}): makes the missing directories of the chain;
\* throws at the first member of the chain that exists and is a file.
mkdir(f, path) ==
    LET chain == Chain(path)
        files == {i \in 1..Len(chain) : Exists(f, chain[i]) /\ ~IsDir(f, chain[i])}
        made == {chain[i] : i \in {j \in 1..Len(chain) : \A k \in files : j < k}}
    IN  [fs |-> Put(f, [q \in made |-> DirNode]), threw |-> files # {}]

\* writeFile(path, content): throws when the directory above is missing or is
\* a file, and when the path is a directory.
writeFile(f, path, node) ==
    IF ~IsDir(f, Parent(path)) \/ IsDir(f, path)
    THEN [fs |-> f, threw |-> TRUE]
    ELSE [fs |-> Put(f, path :> node), threw |-> FALSE]

\* A file operation a translator performs: which translator, mkdir or write,
\* the path, the document written.
MkdirOp(by, path) == [do |-> "mkdir", by |-> by, path |-> path, node |-> DirNode]
WriteOp(by, path, node) == [do |-> "write", by |-> by, path |-> path, node |-> node]

ApplyOp(f, op) ==
    IF op.do = "mkdir" THEN mkdir(f, op.path) ELSE writeFile(f, op.path, op.node)

RECURSIVE RunOps(_, _, _)
\* The operations in order, from the i-th on, up to the first one that throws.
RunOps(f, ops, i) ==
    IF i > Len(ops) THEN [fs |-> f, threw |-> FALSE, done |-> Len(ops)]
    ELSE LET r == ApplyOp(f, ops[i])
         IN  IF r.threw THEN [fs |-> r.fs, threw |-> TRUE, done |-> i - 1]
             ELSE RunOps(r.fs, ops, i + 1)

\* What a translator does: the file operations it performs, in order, and the
\* list of target paths it returns.
Translated(ops, written) == [ops |-> ops, written |-> written]

Nothing == Translated(<<>>, <<>>)

Combine(ts) ==
    Translated(Concat([i \in 1..Len(ts) |-> ts[i].ops]),
               Concat([i \in 1..Len(ts) |-> ts[i].written]))

----------------------------------------------------------------------------
(* The category translators *)

Skipped(i) ==
    SkipKey(i.cat, i.name, IF i.cat = "rules" THEN i.file ELSE "") \in SKIP_FILES

\* A translateAgents that makes the target directory before it lists the source.
translateAgents_mkdirFirst(tree, prefix, dryRun) ==
    LET files == Listing(tree, "agents")
        kept == SelectSeq(files, LAMBDA a : ~Skipped(a))
        target(a) ==
            Entry("agents",
                  prefixName(prefix, IF a.fm # <<>> THEN a.fm ELSE a.name) \o MdSuffix)
    IN  Translated(
            <<MkdirOp("agents", TopDir("agents"))>>
                \o (IF dryRun THEN <<>>
                    ELSE [i \in 1..Len(kept) |->
                            WriteOp("agents", target(kept[i]),
                                    Doc("agents", kept[i].name, prefix))]),
            [i \in 1..Len(kept) |-> target(kept[i])])

\* translateAgents: nothing when agents/ is missing; the target agents
\* directory is made whether or not the pass is a dry run.
translateAgents(tree, prefix, dryRun) ==
    LET files == Listing(tree, "agents")
        kept == SelectSeq(files, LAMBDA a : ~Skipped(a))
        target(a) ==
            Entry("agents",
                  prefixName(prefix, IF a.fm # <<>> THEN a.fm ELSE a.name) \o MdSuffix)
    IN  IF Len(files) = 0 THEN Nothing
        ELSE Translated(
                <<MkdirOp("agents", TopDir("agents"))>>
                    \o (IF dryRun THEN <<>>
                        ELSE [i \in 1..Len(kept) |->
                                WriteOp("agents", target(kept[i]),
                                        Doc("agents", kept[i].name, prefix))]),
                [i \in 1..Len(kept) |-> target(kept[i])])

AutoLanguages == [kind |-> "auto", list |-> <<>>]
LanguageList(l) == [kind |-> "list", list |-> l]

\* discoverLanguages: the directories under rules/.
discoverLanguages(tree) == DirNames(Listing(tree, "rules"))

\* The body of translateRules' loop for one language.
RulesOfLanguage(tree, prefix, lang, dryRun) ==
    LET files == SelectSeq(Listing(tree, "rules"), LAMBDA i : i.name = lang)
        kept == SelectSeq(files, LAMBDA i : ~Skipped(i))
        skillName ==
            IF lang = <<"common">> THEN prefixName(prefix, CodingStandards)
            ELSE prefixName(prefix, lang)
        rule(i) == Inside(skillName, <<"rules", i.file>>)
        index == Inside(skillName, <<"SKILL.md">>)
    IN  IF Len(files) = 0 THEN Nothing
        ELSE Translated(
                IF dryRun THEN <<>>
                ELSE <<MkdirOp("rules", Inside(skillName, <<"rules">>))>>
                        \o [i \in 1..Len(kept) |->
                                WriteOp("rules", rule(kept[i]),
                                        Doc("rules", lang \o <<"/", kept[i].file>>, prefix))]
                        \o <<WriteOp("rules", index, Doc("rules-index", lang, prefix))>>,
                [i \in 1..Len(kept) |-> rule(kept[i])] \o <<index>>)

\* translateRules
translateRules(tree, prefix, languages, dryRun) ==
    LET langList ==
            IF languages.kind = "auto" THEN discoverLanguages(tree) ELSE languages.list
    IN  Combine([i \in 1..Len(langList) |->
                    RulesOfLanguage(tree, prefix, langList[i], dryRun)])

\* The body of translateCommands' loop: the full container and the wrapper.
CommandOf(prefix, c, dryRun) ==
    LET skillName == prefixName(prefix, c.name)
        index == Inside(skillName, <<"SKILL.md">>)
        wrapper == Entry("commands", prefixName(prefix, c.name) \o MdSuffix)
    IN  Translated(
            IF dryRun THEN <<>>
            ELSE <<MkdirOp("commands", Entry("skills", skillName)),
                   WriteOp("commands", index, Doc("commands", c.name, prefix)),
                   WriteOp("commands", wrapper, Doc("wrapper", c.name, prefix))>>,
            <<index, wrapper>>)

\* The path the wrapper's last line names: ~/.cursor/skills/${skillName}/SKILL.md
WrapperPointer(skillName) == <<"~", ".cursor", "skills", skillName, "SKILL.md">>

\* join(skillTargetDir, 'SKILL.md'): the file the container index is written to
ContainerFile(ctx, skillName) == ctx.skillsDir \o <<skillName, "SKILL.md">>

\* The wrappers translateCommands writes: the name, the pointer in the
\* wrapper's text, and the file the same turn of the loop wrote the container to.
Wrappers(tree, ctx, prefix, dryRun) ==
    IF dryRun THEN {}
    ELSE {[name |-> prefixName(prefix, c.name),
           pointer |-> WrapperPointer(prefixName(prefix, c.name)),
           container |-> ContainerFile(ctx, prefixName(prefix, c.name))] :
            c \in {i \in tree : i.cat = "commands" /\ ~Skipped(i)}}

\* translateCommands
translateCommands(tree, prefix, dryRun) ==
    LET files == Listing(tree, "commands")
        kept == SelectSeq(files, LAMBDA c : ~Skipped(c))
    IN  IF Len(files) = 0 THEN Nothing
        ELSE Combine(
                <<Translated(IF dryRun THEN <<>>
                             ELSE <<MkdirOp("commands", TopDir("commands"))>>, <<>>)>>
                \o [i \in 1..Len(kept) |-> CommandOf(prefix, kept[i], dryRun)])

\* The body of translateSkills' loop for one source directory: the index, then
\* the markdown files directly in its subdirectories (readdir of a
\* subdirectory lists a directory below it by its name, which does not end
\* with ".md", so what is deeper is passed over).
SkillOf(tree, prefix, dir, dryRun) ==
    LET entries == SelectSeq(Listing(tree, "skills"), LAMBDA i : i.name = dir)
        subs == SelectSeq(entries, LAMBDA i : i.file # "SKILL.md" /\ Len(SubPath(i.file)) = 2)
        skillName == prefixName(prefix, dir)
        index == Inside(skillName, <<"SKILL.md">>)
        sub(i) == Inside(skillName, <<"rules", i.file>>)
    IN  IF SkipKey("skills", dir, "") \in SKIP_FILES THEN Nothing
        ELSE IF \A i \in 1..Len(entries) : entries[i].file # "SKILL.md" THEN Nothing
        ELSE Translated(
                IF dryRun THEN <<>>
                ELSE <<MkdirOp("skills", Entry("skills", skillName)),
                       WriteOp("skills", index, Doc("skills", dir, prefix))>>
                     \o Concat([i \in 1..Len(subs) |->
                            <<MkdirOp("skills", Inside(skillName, <<"rules">>)),
                              WriteOp("skills", sub(subs[i]),
                                      Doc("skills", dir \o <<"/", subs[i].file>>, prefix))>>]),
                <<index>> \o [i \in 1..Len(subs) |-> sub(subs[i])])

\* translateSkills
translateSkills(tree, prefix, dryRun) ==
    LET dirs == DirNames(Listing(tree, "skills"))
    IN  Combine([i \in 1..Len(dirs) |-> SkillOf(tree, prefix, dirs[i], dryRun)])

\* The body of translateContexts' loop.
ContextOf(prefix, c, dryRun) ==
    LET skillName == prefixName(prefix, <<"ctx", "-">> \o c.name)
        index == Inside(skillName, <<"SKILL.md">>)
    IN  Translated(
            IF dryRun THEN <<>>
            ELSE <<MkdirOp("contexts", Entry("skills", skillName)),
                   WriteOp("contexts", index, Doc("contexts", c.name, prefix))>>,
            <<index>>)

\* translateContexts
translateContexts(tree, prefix, dryRun) ==
    LET files == Listing(tree, "contexts")
    IN  Combine([i \in 1..Len(files) |-> ContextOf(prefix, files[i], dryRun)])

EXTRACTED_RULES == <<"no-console-log.md", "review-before-push.md", "minimal-docs.md">>

\* A translateHooks that writes what hooks.json holds into the guidelines.
translateHooks_readsFile(tree, prefix, dryRun) ==
    LET codingStdSkillName == prefixName(prefix, CodingStandards)
        rule(i) == Inside(codingStdSkillName, <<"rules", EXTRACTED_RULES[i]>>)
        hooks == Listing(tree, "hooks")
    IN  IF Len(hooks) = 0 THEN Nothing
        ELSE Translated(
                IF dryRun THEN <<>>
                ELSE <<MkdirOp("hooks", Inside(codingStdSkillName, <<"rules">>))>>
                        \o [i \in 1..Len(EXTRACTED_RULES) |->
                                WriteOp("hooks", rule(i),
                                        Doc("hooks", <<EXTRACTED_RULES[i]>>, hooks[1].fm))],
                [i \in 1..Len(EXTRACTED_RULES) |-> rule(i)])

\* translateHooks: the fixed guideline documents, when hooks/hooks.json exists.
translateHooks(tree, prefix, dryRun) ==
    LET codingStdSkillName == prefixName(prefix, CodingStandards)
        rule(i) == Inside(codingStdSkillName, <<"rules", EXTRACTED_RULES[i]>>)
    IN  IF Len(Listing(tree, "hooks")) = 0 THEN Nothing
        ELSE Translated(
                IF dryRun THEN <<>>
                ELSE <<MkdirOp("hooks", Inside(codingStdSkillName, <<"rules">>))>>
                        \o [i \in 1..Len(EXTRACTED_RULES) |->
                                WriteOp("hooks", rule(i),
                                        Doc("hooks", <<EXTRACTED_RULES[i]>>, <<>>))],
                [i \in 1..Len(EXTRACTED_RULES) |-> rule(i)])

----------------------------------------------------------------------------
(* runSync: one translation pass *)

\* The order in which runSync runs the file translators; the registry merge
\* runs last.
CategoryOrder == <<"agents", "rules", "commands", "skills", "contexts", "hooks">>

ALL_CATEGORIES == {"agents", "rules", "commands", "skills", "contexts", "hooks", "mcp"}

SyncOptions(prefix, categories, languages, mcpSelection, dryRun) ==
    [prefix |-> prefix, categories |-> categories, languages |-> languages,
     mcpSelection |-> mcpSelection, dryRun |-> dryRun]

\* The call runSync makes for an enabled category.
TranslatorOf(cat, tree, options) ==
    CASE cat = "agents" -> translateAgents(tree, options.prefix, options.dryRun)
      [] cat = "rules" ->
            translateRules(tree, options.prefix, options.languages, options.dryRun)
      [] cat = "commands" -> translateCommands(tree, options.prefix, options.dryRun)
      [] cat = "skills" -> translateSkills(tree, options.prefix, options.dryRun)
      [] cat = "contexts" -> translateContexts(tree, options.prefix, options.dryRun)
      [] OTHER -> translateHooks(tree, options.prefix, options.dryRun)

NoCounts == [c \in ALL_CATEGORIES |-> 0]

\* The paths under skills/ that two different translators wrote.
Rewritten(ops) ==
    {ops[j].path : j \in {k \in 1..Len(ops) :
        /\ ops[k].do = "write"
        /\ ops[k].path.root = "skills"
        /\ \E i \in 1..(k - 1) :
            /\ ops[i].do = "write"
            /\ ops[i].path = ops[k].path
            /\ ops[i].by # ops[k].by}}

SyncResult(f, file, threw, counts, m, rewritten) ==
    [fs |-> f, mcp |-> file, threw |-> threw, counts |-> counts, added |-> m.added,
     skipped |-> m.skipped, wrote |-> m.wrote, names |-> m.names,
     rewritten |-> rewritten]

\* runSync(options): the possible outcomes.  The translators run in order; a
\* file operation may fail (the disk, a permission, a file where a directory is
\* needed), and the pass then throws with the earlier operations done.  The
\* outcome with threw = FALSE is the complete pass.
runSync(tree, f, file, srcM, options) ==
    LET translator(cat) ==
            IF cat \in options.categories THEN TranslatorOf(cat, tree, options)
            ELSE Nothing
        ops == Combine([i \in 1..Len(CategoryOrder) |-> translator(CategoryOrder[i])]).ops
        noMerge == McpResult(FALSE, 0, 0, FALSE, file, {})
        m == IF "mcp" \in options.categories
             THEN translateMcp(srcM, file, options.dryRun, options.mcpSelection)
             ELSE noMerge
        counts == [c \in ALL_CATEGORIES |->
                    IF c = "mcp" THEN m.added ELSE Len(translator(c).written)]
        failed(k) ==
            LET r == RunOps(f, SubSeq(ops, 1, k), 1)
            IN  SyncResult(r.fs, file, TRUE, NoCounts, noMerge,
                           Rewritten(SubSeq(ops, 1, r.done)))
        full == RunOps(f, ops, 1)
    IN  {failed(k) : k \in 0..(Len(ops) - 1)}
        \cup (IF full.threw \/ m.threw \/ m.wrote THEN {failed(Len(ops))} ELSE {})
        \cup (IF full.threw \/ m.threw THEN {}
              ELSE {SyncResult(full.fs, m.file, FALSE, counts, m, Rewritten(ops))})

\* cmdSync: the options the sync subcommand passes to runSync.
cmdSync(prefix, dryRun) ==
    SyncOptions(prefix, ALL_CATEGORIES, AutoLanguages, AllSelection, dryRun)

----------------------------------------------------------------------------
(* Inputs *)

\* The prefixes tried: none, a plain one, one with a hyphen (the wizard accepts
\* /^[a-z][a-z0-9-]*$/, --prefix=NAME accepts anything).
Prefixes == {<<>>, <<"e">>, <<"e", "-", "x">>}

\* Source base names.
BaseNames == {<<"b">>, <<"x", "-", "b">>}

\* Names of entries the user made in the target.
UserNames == {<<"-", "b">>, <<"e", "-", "n">>}

PlainServer == Config("npx", "d", {}, {})

\* A user's own server definition in mcp.json.
UserServer == Config("uvx", "", {}, {})

SampleSource == [state |-> "ok", servers |-> <<[name |-> "memory", config |-> PlainServer]>>]

ObjectFile(map, extra) == RegistryFile("object", "map", map, extra, FALSE)

----------------------------------------------------------------------------
(* Operations on the target: the naming write, scan, clean *)

\* No wizard, no menu and no call in progress, no temp directory.  The wizard
\* state's unset fields read as state.languages || 'auto' and
\* state.mcpSelection || 'all'.
Quiet ==
    /\ step = 0
    /\ history = <<>>
    /\ wizardState = [clone |-> 0, prefix |-> <<>>, categories |-> {},
                      languages |-> AutoLanguages, mcpSelection |-> AllSelection]
    /\ user = [answered |-> <<>>, escOnly |-> FALSE]
    /\ tmpDirs = {}
    /\ activeTmpDirs = {}
    /\ pc = [p \in Procs |-> "idle"]
    /\ local = [p \in Procs |-> [tmpDir |-> 0]]
    /\ scanResults = <<>>

NoOp ==
    [op |-> "none", prefix |-> <<>>, dryRun |-> FALSE, selection |-> NoSelection,
     threw |-> FALSE,
     skills |-> {}, agents |-> {}, commands |-> {}, total |-> 0,
     added |-> 0, skipped |-> 0, wrote |-> FALSE,
     categories |-> {}, languages |-> AutoLanguages, counts |-> NoCounts,
     rewritten |-> {}, resolved |-> <<>>,
     fields |-> <<>>, frontmatter |-> <<>>, body |-> <<>>, rule |-> 0, replaced |-> {},
     written |-> <<>>, wrappers |-> {},
     kind |-> "", name |-> <<>>, description |-> <<>>]

\* The records of installedAs whose entry is still in the target.
StillInstalled(records, f) ==
    {i \in records : Exists(f, Entry(i.root, i.entry))}

\* The name of the entry a translator creates for an item: a container
\* directory under skills/, a file `${name}.md` under agents/ and commands/.
EntryName(root, name) ==
    IF root = "skills" THEN name ELSE name \o MdSuffix

\* What a translator writes for one item named prefixName(prefix, base):
\* skills/<name>/SKILL.md, agents/<name>.md or commands/<name>.md, after
\* mkdir -p of the directory above it.
ItemWrites(root, prefix, base) ==
    LET name == prefixName(prefix, base)
        doc == Doc("item", base, prefix)
    IN  IF root = "skills"
        THEN (TopDir(root) :> DirNode) @@ (Entry(root, name) :> DirNode)
                @@ (Inside(name, <<"SKILL.md">>) :> doc)
        ELSE (TopDir(root) :> DirNode) @@ (Entry(root, name \o MdSuffix) :> doc)

\* The environment: the user makes a file or a directory in the target.
UserCreate(root, name, kind) ==
    /\ EntryCount(fs) < MaxEntries
    /\ ~Exists(fs, Entry(root, name))
    /\ fs' = Put(fs, (TopDir(root) :> DirNode)
                     @@ (Entry(root, name) :> IF kind = "dir" THEN DirNode ELSE UserFile))
    /\ last' = [NoOp EXCEPT !.op = "user"]
    /\ UNCHANGED <<procVars, cursorDir, header, content, repo, userPrefix, mcpFile, srcMcp, mcpInstalled, installedAs>>

\* A translator writes one item under the naming policy.  mkdir over a file and
\* writeFile over a directory throw: the item is then not written.
InstallItem(root, prefix, base) ==
    LET entry == Entry(root, EntryName(root, prefixName(prefix, base))) IN
    /\ Exists(fs, entry) \/ EntryCount(fs) < MaxEntries
    /\ Exists(fs, entry) => (IsDir(fs, entry) <=> root = "skills")
    /\ fs' = Put(fs, ItemWrites(root, prefix, base))
    /\ installedAs' = installedAs \cup
            {[root |-> root, entry |-> entry.name, prefix |-> prefix, base |-> base]}
    /\ last' = [NoOp EXCEPT !.op = "install", !.prefix = prefix]
    /\ UNCHANGED <<procVars, cursorDir, header, content, repo, userPrefix, mcpFile, srcMcp, mcpInstalled>>

\* scanDirectory(cursorDir, prefix)
ScanDirectory(prefix) ==
    LET r == scanDirectory(fs, prefix) IN
    /\ last' = [NoOp EXCEPT !.op = "scan", !.prefix = prefix, !.skills = r.skills,
                            !.agents = r.agents, !.commands = r.commands,
                            !.total = r.totalFiles]
    /\ UNCHANGED <<procVars, cursorDir, header, content, repo, userPrefix, fs, mcpFile, srcMcp, mcpInstalled, installedAs>>

CleanRecord(op, prefix, o) ==
    [NoOp EXCEPT !.op = op, !.prefix = prefix, !.threw = o.threw,
                 !.skills = o.skills, !.agents = o.agents,
                 !.commands = o.commands, !.total = o.totalRemoved]

\* runClean(ctx, prefix), as the menu calls it.
RunClean(prefix) ==
    \E o \in runClean(fs, prefix) :
        /\ fs' = o.fs
        /\ installedAs' = StillInstalled(installedAs, o.fs)
        /\ last' = CleanRecord("runClean", prefix, o)
        /\ UNCHANGED <<procVars, cursorDir, header, content, repo, userPrefix, mcpFile, srcMcp, mcpInstalled>>

\* The clean subcommand.
CmdClean(prefix) ==
    \E o \in cmdClean(fs, prefix) :
        /\ fs' = o.fs
        /\ installedAs' = StillInstalled(installedAs, o.fs)
        /\ last' = CleanRecord("cmdClean", prefix, o)
        /\ UNCHANGED <<procVars, cursorDir, header, content, repo, userPrefix, mcpFile, srcMcp, mcpInstalled>>

\* translateMcp(repoDir, ctx, dryRun, selection)
TranslateMcp(dryRun, selection) ==
    LET r == translateMcp(srcMcp, mcpFile, dryRun, selection) IN
    /\ mcpFile' = r.file
    /\ mcpInstalled' = mcpInstalled \cup r.names
    /\ last' = [NoOp EXCEPT !.op = "mcp", !.dryRun = dryRun, !.selection = selection,
                            !.threw = r.threw,
                            !.added = r.added, !.skipped = r.skipped, !.wrote = r.wrote]
    /\ UNCHANGED <<procVars, cursorDir, header, content, repo, userPrefix, fs, srcMcp, installedAs>>

InitClean ==
    /\ repo = {}
    /\ userPrefix = <<>>
    /\ fs = EmptyTarget
    /\ mcpFile = ObjectFile("github" :> UserServer, FALSE)
    /\ srcMcp = SampleSource
    /\ mcpInstalled = {}
    /\ installedAs = {}
    /\ content = <<>>
    /\ header = <<>>
    /\ cursorDir = HomeCursor
    /\ Quiet
    /\ last = NoOp

NextClean ==
    \/ \E root \in Roots, name \in UserNames, kind \in {"file", "dir"} :
            UserCreate(root, name, kind)
    \/ \E root \in Roots, p \in Prefixes, b \in BaseNames : InstallItem(root, p, b)
    \/ \E p \in Prefixes : ScanDirectory(p)
    \/ \E p \in Prefixes : RunClean(p)


\* The target under the naming write, scan and clean, with user-made entries.
SpecClean == InitClean /\ [][NextClean]_vars

----------------------------------------------------------------------------
(* Claims about naming, scan and clean (SpecClean) *)

\* The list of a scan or clean result that belongs to a directory.
ListOf(rec, root) ==
    CASE root = "skills" -> rec.skills
      [] root = "agents" -> rec.agents
      [] OTHER -> rec.commands

\* The entries of the target a clean with this prefix is allowed to remove.
Prefixed(path, prefix) ==
    /\ path.name # <<>>
    /\ StartsWith(path.name, prefix \o Dash)

\* C2: naming bijection.  After an item named prefixName(p, b) was written into
\* skills/, agents/ or commands/, a scan with prefix p lists it and a scan with
\* any other non-empty prefix does not.
C2_NamingBijection ==
    last.op = "scan" =>
        \A i \in installedAs :
            i.prefix # <<>> =>
                /\ last.prefix = i.prefix => i.entry \in ListOf(last, i.root)
                /\ (last.prefix # <<>> /\ last.prefix # i.prefix)
                        => i.entry \notin ListOf(last, i.root)

\* C6: no-prefix mode.  With prefix "" a scan returns empty lists and
\* totalFiles = 0 whatever the target holds, and runClean returns an all-empty
\* result with totalRemoved = 0 and removes nothing.
C6_NoPrefixNoOp ==
    [][(last'.op \in {"scan", "runClean"} /\ last'.prefix = <<>>) =>
            /\ last'.skills = {} /\ last'.agents = {} /\ last'.commands = {}
            /\ last'.total = 0
            /\ ~last'.threw
            /\ fs' = fs
            /\ mcpFile' = mcpFile]_vars

\* C6's case: a no-prefix clean of a target that holds an installed item and an
\* entry whose name starts with "-".
C6_Witness ==
    /\ last.op = "runClean"
    /\ last.prefix = <<>>
    /\ installedAs # {}
    /\ \E root \in Roots : Exists(fs, Entry(root, <<"-", "b">>))

\* C7: clean is confined.  For a non-empty prefix runClean removes only entries
\* directly under the three directories whose name starts with "{prefix}-",
\* returns exactly the names it removed, changes nothing else, leaves mcp.json
\* alone, and a scan with the same prefix then reports totalFiles = 0.
C7_CleanConfined ==
    [][(last'.op = "runClean" /\ last'.prefix # <<>>) =>
            /\ \A q \in DOMAIN fs' : q \in DOMAIN fs /\ fs'[q] = fs[q]
            /\ \A q \in (DOMAIN fs) \ (DOMAIN fs') : Prefixed(q, last'.prefix)
            /\ \A root \in Roots :
                    ListOf(last', root) = readdir(fs, root) \ readdir(fs', root)
            /\ last'.total = EntryCount(fs) - EntryCount(fs')
            /\ mcpFile' = mcpFile
            /\ scanDirectory(fs', last'.prefix).totalFiles = 0]_vars

----------------------------------------------------------------------------
(* The registry merge on its own (SpecMcp) *)

\* Server names: an installable one, a denylisted one, and one that is also a
\* property every object inherits.
McpNames == {"memory", "github", "constructor"}

NodeServer == Config("node", "", {}, {})
TokenServer == Config("npx", "", {"token"}, {})

\* The source entries tried: the installable name under each kind of
\* definition, the other names under a plain one.
SourceEntries ==
    {[name |-> "memory", config |-> c] :
        c \in {PlainServer, NodeServer, TokenServer, NullValue}}
    \cup {[name |-> nm, config |-> PlainServer] : nm \in McpNames \ {"memory"}}
    \cup {[name |-> "github", config |-> NullValue]}

\* The sequences of at most n entries.
RECURSIVE ServerLists(_)
ServerLists(n) ==
    IF n = 0 THEN {<<>>}
    ELSE LET shorter == ServerLists(n - 1) IN
         shorter \cup
         {Append(l, e) : l \in {k \in shorter : Len(k) = n - 1}, e \in SourceEntries}

\* The keys of a parsed JSON object are distinct.
DistinctNames(l) == \A i, j \in 1..Len(l) : l[i].name = l[j].name => i = j

SourceFiles ==
    {[state |-> "missing", servers |-> <<>>], [state |-> "invalid", servers |-> <<>>]}
    \cup {[state |-> "ok", servers |-> l] :
            l \in {k \in ServerLists(MaxServers) : DistinctNames(k)}}

\* What the user's mcp.json may hold under a key: nothing, a falsy value
\* (null, "", 0, false), a definition of the user's own.
RegistryMaps ==
    {m \in UNION {[D -> {FalsyValue, UserServer}] : D \in SUBSET {"memory", "other"}} : TRUE}

RegistryFiles ==
    {MissingFile,
     RegistryFile("garbage", "absent", NoMap, FALSE, FALSE),
     RegistryFile("scalar", "absent", NoMap, FALSE, FALSE),
     RegistryFile("array", "absent", NoMap, FALSE, FALSE),
     RegistryFile("object", "absent", NoMap, TRUE, FALSE),
     RegistryFile("object", "array", NoMap, FALSE, FALSE),
     RegistryFile("object", "scalar", NoMap, FALSE, FALSE)}
    \cup {ObjectFile(m, FALSE) : m \in RegistryMaps}
    \cup {ObjectFile("other" :> UserServer, TRUE)}

Selections ==
    {NoSelection, AllSelection}
    \cup {ListSelection(S) :
            S \in {{"memory"}, {"memory", "ghost"}, {"constructor", "github", "memory"}}}

InitMcp ==
    /\ repo = {}
    /\ userPrefix = <<>>
    /\ fs = EmptyTarget
    /\ mcpFile \in RegistryFiles
    /\ srcMcp \in SourceFiles
    /\ mcpInstalled = {}
    /\ installedAs = {}
    /\ content = <<>>
    /\ header = <<>>
    /\ cursorDir = HomeCursor
    /\ Quiet
    /\ last = NoOp

\* resolveSelectedServers(available, selection) on the available list of the
\* source file, as translateMcp and the picker call it.
Resolve(selection) ==
    LET available == getAvailableServers(srcMcp) IN
    /\ ~available.threw
    /\ last' = [NoOp EXCEPT !.op = "resolve", !.selection = selection,
                            !.resolved = resolveSelectedServers(available.list, selection)]
    /\ UNCHANGED <<procVars, cursorDir, header, content, repo, userPrefix, fs, mcpFile, srcMcp, mcpInstalled, installedAs>>

NextMcp ==
    \/ \E dryRun \in BOOLEAN, selection \in Selections : TranslateMcp(dryRun, selection)
    \/ \E selection \in Selections : Resolve(selection)

\* Any sequence of merges from one source file into any registry file.
SpecMcp == InitMcp /\ [][NextMcp]_vars

\* C1: merge monotonicity.  Whatever mcp.json holds, a merge removes no key of
\* its mcpServers and changes the value under no key that was there before.
C1_MergeMonotone ==
    [][last'.op = "mcp" =>
            \A k \in RegistryKeys(mcpFile) :
                /\ k \in RegistryKeys(mcpFile')
                /\ mcpFile'.map[k] = mcpFile.map[k]]_vars

\* C9: merge accounting.  The counts translateMcp returns satisfy
\* added + skipped = the number of servers the selection resolves to among the
\* available ones.
C9_MergeAccounting ==
    (last.op = "mcp" /\ ~last.threw) =>
        last.added + last.skipped =
            Len(resolveSelectedServers(getAvailableServers(srcMcp).list, last.selection))

\* C9's case: a merge that added one server and skipped another.
C9_Witness ==
    /\ last.op = "mcp"
    /\ ~last.threw
    /\ last.added >= 1
    /\ last.skipped >= 1

\* C10: the registry is written only by a merge that is no dry run and added at
\* least one entry; every other merge leaves mcp.json exactly as it was, and
\* does not create it.
C10_WriteOnlyWhenAdded ==
    [][last'.op = "mcp" =>
            /\ last'.wrote => (~last'.dryRun /\ last'.added > 0)
            /\ (last'.dryRun \/ last'.added = 0) => (~last'.wrote /\ mcpFile' = mcpFile)]_vars

\* C10's case: a dry run that counted an addition and did not create the file.
C10_Witness ==
    /\ last.op = "mcp"
    /\ last.dryRun
    /\ last.added > 0
    /\ mcpFile = MissingFile

\* The members of a sequence.
Range(seq) == {seq[i] : i \in 1..Len(seq)}

\* The place of a member in a sequence without repetitions.
PlaceOf(seq, e) == CHOOSE i \in 1..Len(seq) : seq[i] = e

\* C11: only filtered servers are ever installed.  getAvailableServers returns
\* exactly the source entries, in the source's order, whose name is not on the
\* denylist and which the credential heuristic does not match, the denylist
\* being tested first (a denylisted entry is never handed to the heuristic); and
\* every entry a merge adds to mcp.json is an entry of that list, whatever the
\* selection names.
C11_OnlyFilteredInstalled ==
    [][last'.op = "mcp" =>
            LET available == getAvailableServers(srcMcp)
                entries == Range(srcMcp.servers)
            IN  /\ (srcMcp.state = "ok"
                        /\ \A e \in entries :
                            e.config = NullValue => e.name \in TOKEN_REQUIRED_MCP_SERVERS)
                    => ~available.threw
                /\ (srcMcp.state = "ok" /\ ~available.threw) =>
                    /\ \A e \in entries :
                        e \in Range(available.list) <=>
                            /\ e.name \notin TOKEN_REQUIRED_MCP_SERVERS
                            /\ ~requiresAuth(e.config)
                    /\ Range(available.list) \subseteq entries
                    /\ \A i, j \in 1..Len(available.list) :
                        i < j => PlaceOf(srcMcp.servers, available.list[i])
                                    < PlaceOf(srcMcp.servers, available.list[j])
                /\ \A k \in RegistryKeys(mcpFile') :
                    (k \notin RegistryKeys(mcpFile) \/ mcpFile'.map[k] # mcpFile.map[k]) =>
                        \E e \in Range(available.list) :
                            e.name = k /\ mcpFile'.map[k] = cleanConfig(e.config)]_vars

\* C11's case: a merge wrote the registry although its selection names a
\* denylisted server that the source file offers.
C11_Witness ==
    /\ last.op = "mcp"
    /\ last.wrote
    /\ "github" \in last.selection.names
    /\ \E e \in Range(srcMcp.servers) : e.name = "github"
    /\ "github" \notin RegistryKeys(mcpFile)

RECURSIVE KeepNamed(_, _)
\* The members of a list whose name is one of the names, in the list's order.
KeepNamed(A, names) ==
    IF A = <<>> THEN <<>>
    ELSE (IF Head(A).name \in names THEN <<Head(A)>> ELSE <<>>)
            \o KeepNamed(Tail(A), names)

\* C12: selection resolution.  For the available list A: 'none' resolves to the
\* empty list, 'all' to A, a list of names to the members of A with one of these
\* names, in A's order; a name that no member has changes nothing.
C12_SelectionResolution ==
    last.op = "resolve" =>
        LET A == getAvailableServers(srcMcp).list IN
        CASE last.selection.kind = "none" -> last.resolved = <<>>
          [] last.selection.kind = "all" -> last.resolved = A
          [] OTHER -> last.resolved = KeepNamed(A, last.selection.names)

\* C12's case: a list naming one member of A and a name no member has, resolved
\* against a longer A.
C12_Witness ==
    /\ last.op = "resolve"
    /\ last.selection.kind = "list"
    /\ "ghost" \in last.selection.names
    /\ Len(last.resolved) = 1
    /\ Len(getAvailableServers(srcMcp).list) > 1

\* A registry file that is missing or holds no usable registry: no JSON, or
\* JSON without a service map.
Unusable(file) ==
    \/ file.state \in {"missing", "garbage", "scalar", "array"}
    \/ file.state = "object" /\ file.servers # "map"

\* C13: tolerant registry read.  When mcp.json is missing or holds no usable
\* registry, a merge from a readable source file does not fail, and when it
\* added at least one entry outside a dry run the file it wrote is a JSON object
\* with an mcpServers map whose keys are the added entries.
C13_TolerantRead ==
    [][(last'.op = "mcp" /\ Unusable(mcpFile) /\ ~getAvailableServers(srcMcp).threw) =>
            /\ ~last'.threw
            /\ (last'.added > 0 /\ ~last'.dryRun) =>
                /\ mcpFile'.state = "object"
                /\ mcpFile'.servers = "map"
                /\ Cardinality(RegistryKeys(mcpFile')) = last'.added
                /\ \A k \in RegistryKeys(mcpFile') :
                    \E e \in Range(getAvailableServers(srcMcp).list) :
                        e.name = k /\ mcpFile'.map[k] = cleanConfig(e.config)]_vars

----------------------------------------------------------------------------
(* Translation passes and clean over one source tree (Spec) *)

\* The largest number of documents in the source tree.
MaxItems == 2

\* The source trees of the passes: hooks/hooks.json with one content.
SourceTrees ==
    {t \in SUBSET {i \in SourceItems : i.cat = "hooks" => i.fm = <<>>} :
        Cardinality(t) <= MaxItems}

\* A target in use: the three directories and an agent of the user's own.
UserTarget ==
    (Entry("agents", <<"u", ".md">>) :> UserFile) @@ [q \in {TopDir(r) : r \in Roots} |-> DirNode]

\* A target where a file of the user's has the name of a container.
ConflictTarget ==
    (TopDir("skills") :> DirNode) @@ (Entry("skills", <<"e", "-", "b">>) :> UserFile)

ArrayFile == RegistryFile("array", "absent", NoMap, FALSE, FALSE)

\* The targets and service files a behaviour starts from.
Environments ==
    {[fs |-> EmptyTarget, mcpFile |-> MissingFile, srcMcp |-> SampleSource],
     [fs |-> UserTarget, mcpFile |-> ArrayFile, srcMcp |-> SampleSource],
     [fs |-> ConflictTarget, mcpFile |-> ObjectFile("github" :> UserServer, FALSE),
      srcMcp |-> [state |-> "invalid", servers |-> <<>>]]}

\* The passes tried: the sync subcommand with and without a prefix and
\* --dry-run, and a wizard pass over two categories with an explicit language
\* list and no service selected.
OptionsTried(prefix) ==
    {cmdSync(prefix, d) : d \in BOOLEAN}
    \cup {SyncOptions(prefix, {"rules", "hooks"}, LanguageList(<< <<"b">>, <<"go">> >>),
                      NoSelection, FALSE)}

\* runSync(options)
RunSync(options) ==
    \E o \in runSync(repo, fs, mcpFile, srcMcp, options) :
        /\ fs' = o.fs
        /\ mcpFile' = o.mcp
        /\ mcpInstalled' = mcpInstalled \cup o.names
        /\ last' = [NoOp EXCEPT !.op = "sync", !.prefix = options.prefix,
                                !.dryRun = options.dryRun,
                                !.selection = options.mcpSelection,
                                !.categories = options.categories,
                                !.languages = options.languages,
                                !.threw = o.threw, !.counts = o.counts,
                                !.added = o.added, !.skipped = o.skipped,
                                !.wrote = o.wrote, !.rewritten = o.rewritten]
        /\ UNCHANGED <<procVars, cursorDir, header, content, repo, userPrefix, srcMcp, installedAs>>

Init ==
    /\ repo \in SourceTrees
    /\ userPrefix \in {<<>>, <<"e">>}
    /\ \E env \in Environments :
        /\ fs = env.fs
        /\ mcpFile = env.mcpFile
        /\ srcMcp = env.srcMcp
    /\ mcpInstalled = {}
    /\ installedAs = {}
    /\ content = <<>>
    /\ header = <<>>
    /\ cursorDir = HomeCursor
    /\ Quiet
    /\ last = NoOp

Next ==
    \/ \E options \in OptionsTried(userPrefix) : RunSync(options)
    \/ CmdClean(userPrefix)

\* Any sequence of passes and cleans over one source tree.
Spec == Init /\ [][Next]_vars

\* The options of the pass a record of last describes.
OptionsOf(rec) ==
    SyncOptions(rec.prefix, rec.categories, rec.languages, rec.selection, rec.dryRun)

\* The complete passes runSync has from a target.
CompletePasses(f, file, options) ==
    {o \in runSync(repo, f, file, srcMcp, options) : ~o.threw}

\* C3: a dry run writes nothing.  A pass with dryRun = TRUE leaves the target
\* as it was: no file and no directory is created, changed or removed, and
\* mcp.json is not written.
C3_DryRunWritesNothing ==
    [][(last'.op = "sync" /\ last'.dryRun) => (fs' = fs /\ mcpFile' = mcpFile)]_vars

\* C4: no target document is written twice in one pass.  The source tree's
\* base names are unique inside each category; no path under skills/ is written
\* by two different translators of the same pass.
C4_WrittenOnce ==
    last.op = "sync" => last.rewritten = {}

\* C5: retrying the whole pass is idempotent.  For passes that are no dry run:
\* a complete pass run after a pass over the same inputs (complete or aborted)
\* gives the target and mcp.json a single complete pass gives; a complete pass
\* run after a complete one changes nothing and reports added = 0.
C5_RetryIdempotent ==
    [][(last'.op = "sync" /\ ~last'.dryRun) =>
            \A again \in CompletePasses(fs', mcpFile', OptionsOf(last')) :
                /\ \A single \in CompletePasses(fs, mcpFile, OptionsOf(last')) :
                        again.fs = single.fs /\ again.mcp = single.mcp
                /\ ~last'.threw =>
                        (again.fs = fs' /\ again.mcp = mcpFile' /\ again.added = 0)]_vars

\* C8: the README's promise for the no-prefix mode.  Without a prefix the clean
\* subcommand removes the MCP servers the tool installed from mcp.json, and
\* nothing else.
C8_NoPrefixCleanRemovesServers ==
    [][(last'.op = "cmdClean" /\ last'.prefix = <<>>) =>
            /\ fs' = fs
            /\ \A n \in mcpInstalled : n \notin RegistryKeys(mcpFile')]_vars

----------------------------------------------------------------------------
(* Texts (transform.ts)                                                    *)
(*                                                                         *)
(* A text is a sequence of tokens.  A token is one character, or a whole   *)
(* word that no pattern of the program looks into.  "BACKTICK" stands for  *)
(* the backtick character.                                                 *)

Fence == <<"-", "-", "-">>

\* \s
Whitespace == {" ", "\n"}

\* the tokens that are not \w characters or words
NonWord == {" ", "\n", "\"", "'", ":", "-", "#", "BACKTICK", "/", "*", ".", ",", ")",
            "~/.claude/", "~/.cursor/", "agents/", "skills/", ".md", "**"}

IsWord(t) == t \notin NonWord

\* s.slice(i - 1)
From(s, i) == SubSeq(s, i, Len(s))

\* s.startsWith(pat, i - 1)
At(s, i, pat) ==
    /\ i >= 1
    /\ i + Len(pat) - 1 <= Len(s)
    /\ SubSeq(s, i, i + Len(pat) - 1) = pat

RECURSIVE trimStart(_)
trimStart(s) ==
    IF s # <<>> /\ Head(s) \in Whitespace THEN trimStart(Tail(s)) ELSE s

RECURSIVE trimEnd(_)
trimEnd(s) ==
    IF s # <<>> /\ s[Len(s)] \in Whitespace THEN trimEnd(SubSeq(s, 1, Len(s) - 1)) ELSE s

trim(s) == trimEnd(trimStart(s))

\* s.split('\n')
RECURSIVE split(_)
split(s) ==
    IF \E i \in 1..Len(s) : s[i] = "\n"
    THEN LET i == CHOOSE k \in 1..Len(s) : s[k] = "\n" /\ \A j \in 1..(k - 1) : s[j] # "\n"
         IN <<SubSeq(s, 1, i - 1)>> \o split(From(s, i + 1))
    ELSE <<s>>

\* lines.join('\n')
RECURSIVE join(_)
join(lines) ==
    IF lines = <<>> THEN <<>>
    ELSE IF Len(lines) = 1 THEN lines[1]
    ELSE lines[1] \o <<"\n">> \o join(Tail(lines))

\* value.replace(/\n+/g, ' ')
RECURSIVE FlattenNewlines(_)
FlattenNewlines(s) ==
    IF s = <<>> THEN <<>>
    ELSE IF Head(s) = "\n"
         THEN LET rest == FlattenNewlines(Tail(s))
              IN IF Len(s) > 1 /\ s[2] = "\n" THEN rest ELSE <<" ">> \o rest
         ELSE <<Head(s)>> \o FlattenNewlines(Tail(s))

\* A header value: a string, or a boolean with the text `${value}` gives it.
Str(text) == [type |-> "string", text |-> text]
Bool(b) == [type |-> "boolean", text |-> <<IF b THEN "true" ELSE "false">>]
Field(key, value) == [key |-> key, value |-> value]

\* buildFrontmatter(fields); fields in the order of Object.entries
FieldLine(f) ==
    f.key \o <<":", " ">> \o
        (IF f.value.type = "boolean" THEN f.value.text
         ELSE trim(FlattenNewlines(f.value.text)))

buildFrontmatter(fields) ==
    join(<<Fence>> \o [i \in 1..Len(fields) |-> FieldLine(fields[i])] \o <<Fence>>)

\* line.match(/^(\w[\w-]*):\s*(.*)$/): the key is the longest run of word
\* characters and hyphens, the first a word character, and a colon follows it.
RECURSIVE KeyLength(_)
KeyLength(line) ==
    IF line # <<>> /\ (IsWord(Head(line)) \/ Head(line) = "-")
    THEN 1 + KeyLength(Tail(line)) ELSE 0

MatchesKv(line) ==
    /\ line # <<>>
    /\ IsWord(line[1])
    /\ KeyLength(line) < Len(line)
    /\ line[KeyLength(line) + 1] = ":"

Unquote(value) ==
    IF /\ value # <<>>
       /\ \/ value[1] = "\"" /\ value[Len(value)] = "\""
          \/ value[1] = "'" /\ value[Len(value)] = "'"
    THEN SubSeq(value, 2, Len(value) - 1)
    ELSE value

RECURSIVE ParseLines(_, _)
ParseLines(lines, frontmatter) ==
    IF lines = <<>> THEN frontmatter
    ELSE LET line == Head(lines)
             n == KeyLength(line)
         IN IF MatchesKv(line)
            THEN ParseLines(Tail(lines),
                    (SubSeq(line, 1, n) :> Unquote(trim(From(line, n + 2)))) @@ frontmatter)
            ELSE ParseLines(Tail(lines), frontmatter)

\* content.match(/^---\s*\n([\s\S]*?)\n---\s*\n?([\s\S]*)$/): the places where
\* the header's raw text can start (after "---", whitespace and a newline),
\* and the places where "\n---" closes it.
OpenEnds(s) ==
    {k \in 5..(Len(s) + 1) :
        /\ At(s, 1, Fence)
        /\ s[k - 1] = "\n"
        /\ \A j \in 4..(k - 2) : s[j] \in Whitespace}

Closers(s, k) == {m \in k..Len(s) : At(s, m, <<"\n">> \o Fence)}

parseFrontmatter(s) ==
    LET opens == {k \in OpenEnds(s) : Closers(s, k) # {}} IN
    IF opens = {} THEN [frontmatter |-> <<>>, body |-> s]
    ELSE LET k == CHOOSE x \in opens : \A y \in opens : y <= x
             m == CHOOSE x \in Closers(s, k) : \A y \in Closers(s, k) : x <= y
         IN [frontmatter |-> ParseLines(split(SubSeq(s, k, m - 1)), <<>>),
             body |-> trimStart(From(s, m + 4))]

----------------------------------------------------------------------------
(* Content transforms (constants.ts, transform.ts)                         *)
(*                                                                         *)
(* A rule's pattern is: one of a few literal leads, then an optional       *)
(* capture group, then a literal trail.  Its replacement is a literal      *)
(* lead, the prefix and the captured text where the replacement has        *)
(* `${p}$1`, and a literal trail.                                          *)

\* the alternatives of the known-command patterns, as token sequences
BacktickCommands ==
    {<<"plan">>, <<"tdd">>, <<"code", "-", "review">>, <<"build", "-", "fix">>,
     <<"e2e">>, <<"refactor", "-", "clean">>, <<"learn">>, <<"checkpoint">>,
     <<"verify">>, <<"go", "-", "review">>, <<"go", "-", "test">>, <<"go", "-", "build">>}

SlashCommands ==
    {<<"plan">>, <<"tdd">>, <<"code", "-", "review">>, <<"build", "-", "and", "-", "fix">>,
     <<"build", "-", "fix">>, <<"e2e">>, <<"refactor", "-", "clean">>,
     <<"go", "-", "review">>, <<"go", "-", "test">>, <<"go", "-", "build">>}

\* the tokens that begin with a character of [\s,.)]
Lookahead == {" ", "\n", ",", ".", ")", ".md"}

ContentTransform(leads, capture, trail, replaceLead, replaceTrail) ==
    [leads |-> leads, capture |-> capture, trail |-> trail,
     commands |-> {}, boundary |-> FALSE, lookahead |-> FALSE,
     replaceLead |-> replaceLead, replaceTrail |-> replaceTrail]

Literal(pattern, replace) == ContentTransform({pattern}, "none", <<>>, replace, <<>>)

STATIC_TRANSFORMS ==
    << Literal(<<"~/.claude/">>, <<"~/.cursor/">>),
       Literal(<<"CLAUDE.md">>, <<"project", " ", "configuration">>),
       Literal(<<"Claude", " ", "Code", " ", "CLI">>, <<"Cursor">>),
       Literal(<<"Claude", " ", "Code">>, <<"Cursor">>),
       [Literal(<<"Bash", " ", "tool">>, <<"Shell", " ", "tool">>) EXCEPT !.boundary = TRUE],
       Literal(<<"\"", "Bash", "\"">>, <<"\"", "Shell", "\"">>),
       Literal(<<"\"", "Edit", "\"">>, <<"\"", "StrReplace", "\"">>) >>

\* const p = prefix ? `${prefix}-` : ''
DashPrefix(prefix) == IF prefix = <<>> THEN <<>> ELSE prefix \o <<"-">>

getContentTransforms(prefix) ==
    << ContentTransform({<<"~/.claude/", "agents/">>}, "name", <<".md">>,
                        <<"~/.cursor/", "agents/">>, <<".md">>),
       ContentTransform({<<"~/.claude/", "skills/">>}, "name", <<"/">>,
                        <<"~/.cursor/", "skills/">>, <<"/">>),
       ContentTransform({<<"Use", " ", "**">>, <<"use", " ", "**">>,
                         <<"Use", " ", "the", " ", "**">>, <<"use", " ", "the", " ", "**">>},
                        "word", <<"**", " ", "agent">>,
                        <<"Follow", " ", "the", " ", "**">>, <<"**", " ", "skill">>),
       ContentTransform({<<"invokes", " ", "the", " ", "BACKTICK">>},
                        "word", <<"BACKTICK", " ", "agent">>,
                        <<"invokes", " ", "the", " ", "BACKTICK">>, <<"BACKTICK", " ", "skill">>),
       ContentTransform({<<"BACKTICK">>}, "word", <<"BACKTICK", " ", "agent">>,
                        <<"BACKTICK">>, <<"BACKTICK", " ", "skill">>),
       [ContentTransform({<<"BACKTICK", "/">>}, "command", <<"BACKTICK">>,
                         <<"BACKTICK", "/">>, <<"BACKTICK", " ", "command">>)
            EXCEPT !.commands = BacktickCommands],
       [ContentTransform({<<"/">>}, "command", <<>>, <<"/">>, <<>>)
            EXCEPT !.commands = SlashCommands, !.lookahead = TRUE] >>
    \o STATIC_TRANSFORMS

\* the longest run of [\w-] tokens of s from place i
RECURSIVE NameRun(_, _)
NameRun(s, i) ==
    IF i <= Len(s) /\ (IsWord(s[i]) \/ s[i] = "-") THEN 1 + NameRun(s, i + 1) ELSE 0

\* The length of what the capture group takes at place j (0: no match).
\* A run is followed by a token outside [\w-] in every pattern, so the
\* greedy group takes the whole run.
CaptureLength(rule, s, j) ==
    CASE rule.capture = "none" -> 0
      [] rule.capture = "name" -> NameRun(s, j)
      [] rule.capture = "word" -> IF j <= Len(s) /\ IsWord(s[j]) THEN NameRun(s, j) ELSE 0
      [] rule.capture = "command" ->
            LET fits == {c \in rule.commands :
                            /\ At(s, j, c)
                            /\ At(s, j + Len(c), rule.trail)
                            /\ rule.lookahead =>
                                  /\ j + Len(c) <= Len(s)
                                  /\ s[j + Len(c)] \in Lookahead}
            IN IF fits = {} THEN 0 ELSE Len(CHOOSE c \in fits : TRUE)

\* The match of the rule's pattern at place i of s: its length (0: none) and
\* the text of its capture group.
Match(rule, s, i) ==
    LET leadsHere == {l \in rule.leads : At(s, i, l)} IN
    IF leadsHere = {} THEN [len |-> 0, group |-> <<>>]
    ELSE LET lead == CHOOSE l \in leadsHere : \A o \in leadsHere : Len(o) <= Len(l)
             j == i + Len(lead)
             c == CaptureLength(rule, s, j)
             end == j + c + Len(rule.trail)
             ok == /\ rule.capture # "none" => c > 0
                   /\ At(s, j + c, rule.trail)
                   /\ rule.boundary =>
                        /\ i = 1 \/ ~IsWord(s[i - 1])
                        /\ end > Len(s) \/ ~IsWord(s[end])
         IN IF ok THEN [len |-> end - i, group |-> SubSeq(s, j, j + c - 1)]
            ELSE [len |-> 0, group |-> <<>>]

\* the replacement text for one match
ReplaceText(rule, prefix, m) ==
    rule.replaceLead
        \o (IF rule.capture = "none" THEN <<>> ELSE DashPrefix(prefix) \o m.group)
        \o rule.replaceTrail

\* result.replace(pattern, replace) with a global pattern, from place i on:
\* the matches are found in the text as it was, left to right, not overlapping.
RECURSIVE ReplaceFrom(_, _, _, _)
ReplaceFrom(rule, prefix, s, i) ==
    IF i > Len(s) THEN <<>>
    ELSE LET m == Match(rule, s, i)
         IN IF m.len > 0
            THEN ReplaceText(rule, prefix, m) \o ReplaceFrom(rule, prefix, s, i + m.len)
            ELSE <<s[i]>> \o ReplaceFrom(rule, prefix, s, i + 1)

Replace(rule, prefix, s) == ReplaceFrom(rule, prefix, s, 1)

\* the replacement texts that Replace puts into the result
RECURSIVE ReplacedFrom(_, _, _, _)
ReplacedFrom(rule, prefix, s, i) ==
    IF i > Len(s) THEN {}
    ELSE LET m == Match(rule, s, i)
         IN IF m.len > 0
            THEN {ReplaceText(rule, prefix, m)} \cup ReplacedFrom(rule, prefix, s, i + m.len)
            ELSE ReplacedFrom(rule, prefix, s, i + 1)

\* pattern.test(s)
Test(rule, s) == \E i \in 1..Len(s) : Match(rule, s, i).len > 0

\* s without its leading newlines
RECURSIVE trimNewlines(_)
trimNewlines(s) ==
    IF s # <<>> /\ Head(s) = "\n" THEN trimNewlines(Tail(s)) ELSE s

\* result.replace(/\n{3,}/g, '\n\n')
RECURSIVE CollapseBlankLines(_)
CollapseBlankLines(s) ==
    IF s = <<>> THEN <<>>
    ELSE IF At(s, 1, <<"\n", "\n", "\n">>)
         THEN <<"\n", "\n">> \o CollapseBlankLines(trimNewlines(s))
         ELSE <<Head(s)>> \o CollapseBlankLines(Tail(s))

\* for (const { pattern, replace } of transforms) result = result.replace(...)
RECURSIVE ApplyAll(_, _, _)
ApplyAll(transforms, prefix, s) ==
    IF transforms = <<>> THEN s
    ELSE ApplyAll(Tail(transforms), prefix, Replace(Head(transforms), prefix, s))

\* transformContent(content, prefix), for a source path without strip sections
transformContent(s, prefix) ==
    CollapseBlankLines(ApplyAll(getContentTransforms(prefix), prefix, s))

\* the static rules alone, and the clean-up that ends transformContent
applyStatic(s) == CollapseBlankLines(ApplyAll(STATIC_TRANSFORMS, <<>>, s))

----------------------------------------------------------------------------
(* The header codec and the content transforms on bounded texts (SpecText) *)

\* the longest header value, in characters
MaxValue == 2
\* the most fragments a text is made of
MaxText == 2
\* the longest text a transform is applied to, in tokens
MaxLength == 18

HeaderKeys == {<<"name">>, <<"description">>}
ValueChars == {"a", " ", "\""}

RECURSIVE SeqsUpTo(_, _)
SeqsUpTo(S, n) ==
    IF n = 0 THEN {<<>>}
    ELSE LET shorter == SeqsUpTo(S, n - 1)
         IN shorter \cup {Append(t, x) : t \in shorter, x \in S}

HeaderValues == {Str(v) : v \in SeqsUpTo(ValueChars, MaxValue)} \cup {Bool(TRUE), Bool(FALSE)}

\* the field sets: at most one field per key, in either order
FieldSets ==
    {<<>>}
    \cup {<<Field(k, v)>> : k \in HeaderKeys, v \in HeaderValues}
    \cup {pair \in {<<Field(k1, v1), Field(k2, v2)>> :
                        k1 \in HeaderKeys, k2 \in HeaderKeys,
                        v1 \in HeaderValues, v2 \in HeaderValues} :
            pair[1].key # pair[2].key}

Bodies == {<<>>, <<"#", " ", "a", "\n">>}

Fragments ==
    {<<"\"", "Bash", "\"">>, <<"Bash", "\"">>, <<"\"", "Edit", "\"">>,
     <<"Bash", " ", "tool">>, <<"Claude", " ", "Code", " ", "CLI">>, <<"CLAUDE.md">>,
     <<"~/.claude/", "agents/", "a", ".md">>, <<"~/.claude/", "skills/", "a", "/">>,
     <<"Use", " ", "the", " ", "**", "a", "**", " ", "agent">>,
     <<"invokes", " ", "the", " ", "BACKTICK", "a", "BACKTICK", " ", "agent">>,
     <<"BACKTICK", "/", "plan", "BACKTICK">>, <<"/", "plan", " ">>,
     <<"\n", "\n">>}

RECURSIVE Flat(_)
Flat(seqs) == IF seqs = <<>> THEN <<>> ELSE Head(seqs) \o Flat(Tail(seqs))

Texts == {Flat(t) : t \in SeqsUpTo(Fragments, MaxText)}

\* What every translator does with a document: parseFrontmatter(raw), then
\* `${buildFrontmatter(fields)}\n\n${body.trimStart()}` with the parsed body.
BuildFrontmatter ==
    /\ content' = buildFrontmatter(header) \o <<"\n", "\n">>
                        \o trimStart(parseFrontmatter(content).body)
    /\ last' = [NoOp EXCEPT !.op = "build", !.fields = header]
    /\ UNCHANGED <<procVars, cursorDir, header, repo, userPrefix, fs, mcpFile, srcMcp, mcpInstalled, installedAs>>

\* parseFrontmatter(content)
ParseFrontmatter ==
    LET parsed == parseFrontmatter(content) IN
    /\ last' = [NoOp EXCEPT !.op = "parse", !.frontmatter = parsed.frontmatter,
                            !.body = parsed.body]
    /\ UNCHANGED <<procVars, cursorDir, header, content, repo, userPrefix, fs, mcpFile, srcMcp, mcpInstalled, installedAs>>

\* transformContent(content, prefix)
TransformContent(prefix) ==
    /\ Len(content) <= MaxLength
    /\ content' = transformContent(content, prefix)
    /\ last' = [NoOp EXCEPT !.op = "transform", !.prefix = prefix]
    /\ UNCHANGED <<procVars, cursorDir, header, repo, userPrefix, fs, mcpFile, srcMcp, mcpInstalled, installedAs>>

\* one turn of transformContent's loop: result.replace(pattern, replace)
ApplyRule(prefix, n) ==
    LET rule == getContentTransforms(prefix)[n] IN
    /\ Len(content) <= MaxLength
    /\ content' = Replace(rule, prefix, content)
    /\ last' = [NoOp EXCEPT !.op = "rule", !.prefix = prefix, !.rule = n,
                            !.replaced = ReplacedFrom(rule, prefix, content, 1)]
    /\ UNCHANGED <<procVars, cursorDir, header, repo, userPrefix, fs, mcpFile, srcMcp, mcpInstalled, installedAs>>

\* the static rules and the blank-line clean-up
ApplyStatic ==
    /\ Len(content) <= MaxLength
    /\ content' = applyStatic(content)
    /\ last' = [NoOp EXCEPT !.op = "static"]
    /\ UNCHANGED <<procVars, cursorDir, header, repo, userPrefix, fs, mcpFile, srcMcp, mcpInstalled, installedAs>>

InitHeader ==
    /\ repo = {}
    /\ userPrefix = <<>>
    /\ fs = EmptyTarget
    /\ mcpFile = MissingFile
    /\ srcMcp = SampleSource
    /\ mcpInstalled = {}
    /\ installedAs = {}
    /\ content \in Bodies
    /\ header \in FieldSets
    /\ cursorDir = HomeCursor
    /\ Quiet
    /\ last = NoOp

NextHeader ==
    \/ BuildFrontmatter
    \/ ParseFrontmatter

\* Any sequence of builds and parses of one document with one field set.
SpecHeader == InitHeader /\ [][NextHeader]_vars

InitText ==
    /\ repo = {}
    /\ userPrefix \in {<<>>, <<"e">>}
    /\ fs = EmptyTarget
    /\ mcpFile = MissingFile
    /\ srcMcp = SampleSource
    /\ mcpInstalled = {}
    /\ installedAs = {}
    /\ content \in Texts
    /\ header = <<>>
    /\ cursorDir = HomeCursor
    /\ Quiet
    /\ last = NoOp

NextText ==
    \/ TransformContent(userPrefix)
    \/ \E n \in 1..Len(getContentTransforms(userPrefix)) : ApplyRule(userPrefix, n)
    \/ ApplyStatic

\* Any sequence of transform calls on one text.
SpecText == InitText /\ [][NextText]_vars

\* the (key, value) pairs of a field set, and those a parsed header holds
PairsOf(fields) == {<<fields[i].key, fields[i].value>> : i \in 1..Len(fields)}
Recovered(frontmatter) == {<<k, Str(frontmatter[k])>> : k \in DOMAIN frontmatter}

\* C14: header round trip.  For every field set whose keys and values hold no
\* newline (the values may begin or end with spaces, be wrapped in quote
\* characters, or be booleans), parsing the document built from the field set
\* and a body gives back exactly the field set's (key, value) pairs.
C14_HeaderRoundTrip ==
    last.op = "build" =>
        Recovered(parseFrontmatter(content).frontmatter) = PairsOf(last.fields)

\* C15: the static rules followed by the blank-line clean-up are idempotent:
\* applied to their own result, they give the same text, for every text.
C15_StaticIdempotent ==
    last.op = "static" => applyStatic(content) = content

\* C16: for every rule of getContentTransforms(prefix) and every prefix, the
\* empty one included, the rule's pattern matches none of the replacement
\* texts the rule produces, and the rule applied to its own result leaves the
\* text as it is.
C16_RuleIdempotent ==
    last.op = "rule" =>
        LET rule == getContentTransforms(last.prefix)[last.rule] IN
        /\ \A t \in last.replaced : ~Test(rule, t)
        /\ Replace(rule, last.prefix, content) = content

----------------------------------------------------------------------------
(* The category translators one at a time (SpecTranslate) *)

\* the most documents of a source tree
MaxDocs == 2

\* The documents of the source trees: one of every category, a rule of the
\* common language, and hooks/hooks.json with either content.
TranslateItems ==
    {i \in SourceItems :
        \/ i.name = <<"b">> /\ i.file \in {"", "r.md", "SKILL.md"} /\ i.cat # "skills"
        \/ i.cat = "skills" /\ i.name = <<"b">> /\ i.file = "SKILL.md"
        \/ i.cat = "rules" /\ i.name = <<"common">> /\ i.file = "r.md"
        \/ i.cat = "hooks"}

\* The source trees: hooks/hooks.json is one file.
TranslateTrees ==
    {t \in SUBSET TranslateItems :
        /\ Cardinality(t) <= MaxDocs
        /\ Cardinality({i \in t : i.cat = "hooks"}) <= 1}

\* The target directories: user-global, project-local, a custom one.
TargetDirs == {HomeCursor, <<".", ".cursor">>, <<"opt", "cursor">>}

\* The language choices: automatic, and a list naming a language the tree may
\* not have.
LanguageChoices == {AutoLanguages, LanguageList(<< <<"b">>, <<"go">> >>)}

\* One translator called as runSync calls it, on the target as it is.
Translate(cat, languages, dryRun) ==
    LET options == SyncOptions(userPrefix, {cat}, languages, NoSelection, dryRun)
        t == TranslatorOf(cat, repo, options)
        r == RunOps(fs, t.ops, 1)
    IN  /\ cat # "rules" => languages = AutoLanguages
        /\ fs' = r.fs
        /\ last' = [NoOp EXCEPT !.op = "translate", !.prefix = userPrefix,
                                !.dryRun = dryRun, !.categories = {cat},
                                !.languages = languages, !.threw = r.threw,
                                !.written = IF r.threw THEN <<>> ELSE t.written,
                                !.wrappers =
                                    IF cat = "commands" /\ ~r.threw
                                    THEN Wrappers(repo, createContext(cursorDir),
                                                  userPrefix, dryRun)
                                    ELSE {}]
        /\ UNCHANGED <<procVars, cursorDir, header, content, repo, userPrefix, mcpFile, srcMcp,
                       mcpInstalled, installedAs>>

InitTranslate ==
    /\ repo \in TranslateTrees
    /\ userPrefix \in {<<>>, <<"e">>}
    /\ cursorDir \in TargetDirs
    /\ fs = EmptyTarget
    /\ mcpFile = MissingFile
    /\ srcMcp = SampleSource
    /\ mcpInstalled = {}
    /\ installedAs = {}
    /\ content = <<>>
    /\ header = <<>>
    /\ Quiet
    /\ last = NoOp

NextTranslate ==
    \E i \in 1..Len(CategoryOrder), languages \in LanguageChoices, dryRun \in BOOLEAN :
        Translate(CategoryOrder[i], languages, dryRun)

\* Any sequence of translator calls on one source tree.
SpecTranslate == InitTranslate /\ [][NextTranslate]_vars

\* the tree with hooks/hooks.json holding something else
WithHooks(tree, holds) ==
    {IF i.cat = "hooks" THEN [i EXCEPT !.fm = holds] ELSE i : i \in tree}

\* C17: hook gating.  What translateHooks returns and writes depends only on
\* whether hooks/hooks.json exists and on the prefix: nothing when the file is
\* missing; otherwise exactly the fixed guideline documents, each under
\* skills/{prefix}-coding-standards/rules/ with its fixed content; and a tree
\* whose hooks.json holds something else gives the same result.
C17_HookGating ==
    (last.op = "translate" /\ last.categories = {"hooks"} /\ ~last.threw) =>
        LET dir == prefixName(last.prefix, CodingStandards)
            fixed == [i \in 1..Len(EXTRACTED_RULES) |->
                        Inside(dir, <<"rules", EXTRACTED_RULES[i]>>)]
            exists == \E i \in repo : i.cat = "hooks"
        IN  /\ ~exists => last.written = <<>>
            /\ exists =>
                /\ last.written = fixed
                /\ ~last.dryRun =>
                    \A i \in 1..Len(fixed) :
                        /\ Exists(fs, fixed[i])
                        /\ fs[fixed[i]] = Doc("hooks", <<EXTRACTED_RULES[i]>>, <<>>)
            /\ \A holds \in {<<>>, <<"x">>} :
                translateHooks(WithHooks(repo, holds), last.prefix, last.dryRun)
                    = translateHooks(repo, last.prefix, last.dryRun)

C17_Witness ==
    /\ last.op = "translate"
    /\ last.categories = {"hooks"}
    /\ ~last.dryRun
    /\ Len(last.written) = Len(EXTRACTED_RULES)
    /\ last.prefix = <<"e">>
    /\ \E i \in repo : i.cat = "hooks" /\ i.fm = <<"x">>

\* C18: the command wrapper points at the container that was written.  For
\* every source command that is not denied and every target directory, the
\* path in the wrapper's pointer is the path of the file to which the same
\* pass wrote the command's container index skills/{name}/SKILL.md.
C18_WrapperPointsAtContainer ==
    (last.op = "translate" /\ last.categories = {"commands"} /\ ~last.threw) =>
        \A w \in last.wrappers :
            /\ Exists(fs, Inside(w.name, <<"SKILL.md">>))
            /\ Exists(fs, Entry("commands", w.name \o MdSuffix))
            /\ w.pointer = w.container

\* the source subdirectory of the category is missing (for hooks, the file)
MissingSource(tree, cat) == \A i \in tree : i.cat # cat

\* the languages of a choice whose directory the tree has
PresentLanguages(tree, languages) ==
    IF languages.kind = "auto" THEN languages
    ELSE LanguageList(SelectSeq(languages.list,
                                LAMBDA l : \E i \in tree : i.cat = "rules" /\ i.name = l))

\* C19: a missing source subdirectory is zero items, not an error.  A
\* translator whose source subdirectory (for hooks, the source file) is missing
\* returns the empty list and does nothing to the target; translateRules gives
\* for a list of languages what it gives for the languages whose directory
\* exists; and the pass over the same tree completes with the count of every
\* category that of its own translator, 0 for the missing ones.
C19_MissingSourceIsEmpty ==
    last.op = "translate" =>
        LET cat == CHOOSE c \in last.categories : TRUE
            options(cats) ==
                SyncOptions(last.prefix, cats, last.languages, NoSelection, last.dryRun)
            pass == runSync(repo, fs, mcpFile, srcMcp, options(ALL_CATEGORIES))
        IN  /\ MissingSource(repo, cat) =>
                /\ ~last.threw
                /\ last.written = <<>>
                /\ TranslatorOf(cat, repo, options({cat})) = Nothing
            /\ cat = "rules" =>
                translateRules(repo, last.prefix, last.languages, last.dryRun)
                    = translateRules(repo, last.prefix,
                                     PresentLanguages(repo, last.languages), last.dryRun)
            /\ \E o \in pass : ~o.threw
            /\ \A o \in pass : ~o.threw =>
                    \A c \in ALL_CATEGORIES \ {"mcp"} :
                        /\ o.counts[c] = Len(TranslatorOf(c, repo, options({c})).written)
                        /\ MissingSource(repo, c) => o.counts[c] = 0

C19_Witness ==
    /\ last.op = "translate"
    /\ last.categories = {"agents"}
    /\ MissingSource(repo, "agents")
    /\ last.written = <<>>
    /\ fs # EmptyTarget
    /\ \E i \in repo : i.cat = "commands"

----------------------------------------------------------------------------
(* Descriptions (transform.ts, the translators) on bounded documents       *)
(* (SpecDescribe)                                                          *)

\* the longest description inferDescription returns whole, and where it cuts
DescriptionLimit == 200
DescriptionCut == 197

\* the places where a line of s starts
LineStarts(s) == {i \in 1..Len(s) : i = 1 \/ s[i - 1] = "\n"}

\* the last place of the line that holds place i (before its newline)
LineEnd(s, i) ==
    IF \E k \in i..Len(s) : s[k] = "\n"
    THEN (CHOOSE k \in i..Len(s) : s[k] = "\n" /\ \A j \in i..(k - 1) : s[j] # "\n") - 1
    ELSE Len(s)

\* extractTitle(content): content.match(/^#\s+(.+)$/m), trimmed.  The match
\* is at the first line start with "#", whitespace and one more character of
\* the line; the whitespace takes as much as it can.
TitleMatches(s) ==
    {m \in LineStarts(s) \X (1..Len(s)) :
        /\ s[m[1]] = "#"
        /\ m[2] > m[1] + 1
        /\ \A j \in (m[1] + 1)..(m[2] - 1) : s[j] \in Whitespace
        /\ s[m[2]] # "\n"}

extractTitle(s) ==
    IF TitleMatches(s) = {} THEN <<>>
    ELSE LET i == CHOOSE x \in {m[1] : m \in TitleMatches(s)} :
                    \A m \in TitleMatches(s) : x <= m[1]
             k == CHOOSE x \in {m[2] : m \in {n \in TitleMatches(s) : n[1] = i}} :
                    \A m \in TitleMatches(s) : m[1] = i => m[2] <= x
         IN trim(SubSeq(s, k, LineEnd(s, k)))

\* content.replace(/^---[\s\S]*?---\s*\n?/, '')
StripHeader(s) ==
    LET closings == {m \in 4..Len(s) : At(s, 1, Fence) /\ At(s, m, Fence)} IN
    IF closings = {} THEN s
    ELSE LET m == CHOOSE x \in closings : \A y \in closings : x <= y
         IN trimStart(From(s, m + 3))

\* body.match(/^#.*\n+([^#\n][^\n]+)/m): the places k where the group starts,
\* for a heading line at a line start i: after the heading line and its
\* newlines come a character that is not "#" and one more of the same line.
ParagraphMatches(s) ==
    {m \in LineStarts(s) \X (1..Len(s)) :
        /\ s[m[1]] = "#"
        /\ LineEnd(s, m[1]) < m[2] - 1
        /\ \A j \in (LineEnd(s, m[1]) + 1)..(m[2] - 1) : s[j] = "\n"
        /\ s[m[2]] \notin {"#", "\n"}
        /\ m[2] < Len(s)
        /\ s[m[2] + 1] # "\n"}

\* inferDescription(content)
inferDescription(s) ==
    LET body == StripHeader(s)
        matches == ParagraphMatches(body)
    IN  IF matches # {}
        THEN LET m == CHOOSE x \in matches : \A y \in matches : x[1] <= y[1]
                 desc == trim(SubSeq(body, m[2], LineEnd(body, m[2])))
             IN IF Len(desc) > DescriptionLimit
                THEN SubSeq(desc, 1, DescriptionCut) \o <<".", ".", ".">>
                ELSE desc
        ELSE IF extractTitle(s) # <<>> THEN extractTitle(s)
        ELSE <<"Imported from Everything Claude Code">>

\* frontmatter.description: undefined and '' are both falsy, <<>> here
HeaderDescription(raw) ==
    LET frontmatter == parseFrontmatter(raw).frontmatter IN
    IF <<"description">> \in DOMAIN frontmatter THEN frontmatter[<<"description">>] ELSE <<>>

\* The override tables, by base name: their first entries.
AGENT_DESCRIPTION_OVERRIDES ==
    [n \in {<<"code", "-", "reviewer">>, <<"planner">>} |-> <<"agent", " ", "override">>]

SKILL_DESCRIPTION_OVERRIDES ==
    [n \in {<<"plan">>, <<"tdd">>} |-> <<"skill", " ", "override">>]

\* table[key], <<>> for undefined
Lookup(table, key) == IF key \in DOMAIN table THEN table[key] ELSE <<>>

\* a || b || c on strings
FirstTruthy(values) ==
    IF \A i \in 1..Len(values) : values[i] = <<>> THEN <<>>
    ELSE values[CHOOSE i \in 1..Len(values) :
                    values[i] # <<>> /\ \A j \in 1..(i - 1) : values[j] = <<>>]

\* `${description.split('.')[0]}.`
FirstSentence(description) ==
    (IF \E i \in 1..Len(description) : description[i] = "."
     THEN SubSeq(description, 1,
                 (CHOOSE i \in 1..Len(description) :
                    description[i] = "." /\ \A j \in 1..(i - 1) : description[j] # ".") - 1)
     ELSE description) \o <<".">>

\* the description each translator gives the document it writes
AgentDescription(name, raw) ==
    FirstTruthy(<<Lookup(AGENT_DESCRIPTION_OVERRIDES, name), HeaderDescription(raw), <<>> >>)

CommandDescription(name, raw) ==
    FirstTruthy(<<Lookup(SKILL_DESCRIPTION_OVERRIDES, name), HeaderDescription(raw),
                  inferDescription(raw)>>)

WrapperDescription(name, raw) ==
    FirstTruthy(<<HeaderDescription(raw), FirstSentence(CommandDescription(name, raw))>>)

SkillDescription(dir, raw) ==
    FirstTruthy(<<HeaderDescription(raw), <<"Imported skill: ">> \o dir>>)

ContextDescription(name, raw) == inferDescription(raw)

DescriptionKinds == {"agent", "command", "wrapper", "skill", "context"}

DescriptionOf(kind, name, raw) ==
    CASE kind = "agent" -> AgentDescription(name, raw)
      [] kind = "command" -> CommandDescription(name, raw)
      [] kind = "wrapper" -> WrapperDescription(name, raw)
      [] kind = "skill" -> SkillDescription(name, raw)
      [] OTHER -> ContextDescription(name, raw)

\* The source documents: with or without a header (its description set or
\* empty), a title line, a first paragraph.
HeaderTexts ==
    {<<>>,
     Fence \o <<"\n", "description", ":", " ", "header", "\n">> \o Fence \o <<"\n">>,
     Fence \o <<"\n", "description", ":", "\n">> \o Fence \o <<"\n">>}
TitleTexts == {<<>>, <<"#", " ", "title", "\n">>}
ParagraphTexts == {<<>>, <<"\n", "first", " ", "paragraph", "\n">>}

SourceDocs == {h \o t \o q : h \in HeaderTexts, t \in TitleTexts, q \in ParagraphTexts}

DocNames == {<<"b">>, <<"plan">>, <<"planner">>}

\* a translator resolves the description of the document it reads
Describe(kind, name) ==
    /\ last' = [NoOp EXCEPT !.op = "describe", !.kind = kind, !.name = name,
                            !.description = DescriptionOf(kind, name, content)]
    /\ UNCHANGED <<procVars, cursorDir, header, content, repo, userPrefix, fs, mcpFile, srcMcp,
                   mcpInstalled, installedAs>>

InitDescribe ==
    /\ repo = {}
    /\ userPrefix = <<>>
    /\ cursorDir = HomeCursor
    /\ fs = EmptyTarget
    /\ mcpFile = MissingFile
    /\ srcMcp = SampleSource
    /\ mcpInstalled = {}
    /\ installedAs = {}
    /\ content \in SourceDocs
    /\ header = <<>>
    /\ Quiet
    /\ last = NoOp

NextDescribe == \E kind \in DescriptionKinds, name \in DocNames : Describe(kind, name)

\* Any sequence of description resolutions on one source document.
SpecDescribe == InitDescribe /\ [][NextDescribe]_vars

\* the override-table entry of a kind of document: agents and commands (and
\* their wrappers) have a table
OverrideOf(kind, name) ==
    CASE kind = "agent" -> Lookup(AGENT_DESCRIPTION_OVERRIDES, name)
      [] kind \in {"command", "wrapper"} -> Lookup(SKILL_DESCRIPTION_OVERRIDES, name)
      [] OTHER -> <<>>

\* the first paragraph inferDescription finds, <<>> when it falls back
FirstParagraph(raw) ==
    IF ParagraphMatches(StripHeader(raw)) = {} THEN <<>> ELSE inferDescription(raw)

\* C20: description precedence is the same for the agent document, the
\* command container, the command wrapper, the skill index and the context
\* index: the override-table entry, else the header's description, else the
\* inferred first paragraph, else the bare title; when all four are absent or
\* empty, a fallback.  (The wrapper may shorten what it uses to one sentence.)
C20_DescriptionPrecedence ==
    last.op = "describe" =>
        LET expected == FirstTruthy(<<OverrideOf(last.kind, last.name),
                                      HeaderDescription(content),
                                      FirstParagraph(content),
                                      extractTitle(content)>>)
        IN  expected # <<>> =>
                \/ last.description = expected
                \/ last.kind = "wrapper" /\ last.description = FirstSentence(expected)

----------------------------------------------------------------------------
(* Names and layout after a pass (Spec) *)

\* the documents translateAgents has in the target
AgentDocuments(f) ==
    {q \in DOMAIN f : q.root = "agents" /\ f[q].kind = "file" /\ f[q].by = "agents"}

\* C21: names are unique within the agents category.  After a pass that ran
\* translateAgents and was not a dry run, the target holds as many agent
\* documents of the translator as the source has agent files that are not
\* denied, and that is the count the pass reports for agents.
C21_AgentNamesUnique ==
    (last.op = "sync" /\ ~last.threw /\ ~last.dryRun /\ "agents" \in last.categories) =>
        LET files == {i \in repo : i.cat = "agents" /\ ~Skipped(i)}
        IN  /\ last.counts["agents"] = Cardinality(files)
            /\ Cardinality(AgentDocuments(fs)) = Cardinality(files)

\* the containers under skills/ that hold a document a translator wrote
WrittenContainers(f) ==
    {q.name : q \in {r \in DOMAIN f : /\ r.root = "skills"
                                       /\ r.rel # <<>>
                                       /\ f[r].kind = "file"
                                       /\ f[r].by # "user"}}

\* C22: target layout.  After a pass that is not a dry run, whatever the
\* enabled categories and the source tree, every container skills/<name>/ the
\* translators wrote into has its index document SKILL.md.
C22_ContainerHasIndex ==
    (last.op = "sync" /\ ~last.threw /\ ~last.dryRun) =>
        \A name \in WrittenContainers(fs) : Exists(fs, Inside(name, <<"SKILL.md">>))

----------------------------------------------------------------------------
(* The temp clone of a pass (SpecClone) *)

\* The largest number of temp directories mkdtemp hands out in a behaviour.
MaxClones == 2

\* The call that runs the pass.
Main == "p1"

\* A call is in progress at none of these positions.
Returned == {"idle", "returned", "thrown"}

\* mkdtemp: a directory that does not exist yet.
mkdtemp == CHOOSE d \in 1..MaxClones : d \notin tmpDirs

\* cloneRepo, up to its first await of git: mkdtemp makes a new directory and
\* activeTmpDirs.add(tmpDir) tracks it.
cloneRepo(options) ==
    LET tmpDir == mkdtemp IN
    /\ pc[Main] \in Returned
    /\ tmpDirs # 1..MaxClones
    /\ tmpDirs' = tmpDirs \cup {tmpDir}
    /\ activeTmpDirs' = activeTmpDirs \cup {tmpDir}
    /\ local' = [local EXCEPT ![Main] = [tmpDir |-> tmpDir, options |-> options,
                                         threw |-> FALSE]]
    /\ pc' = [pc EXCEPT ![Main] = "clone"]
    /\ UNCHANGED <<step, history, wizardState, user, scanResults>>
    /\ UNCHANGED <<cursorDir, header, content, repo, userPrefix, fs, mcpFile, srcMcp,
                   mcpInstalled, installedAs, last>>

\* await execFileAsync('git', ['clone', ...]) and then 'git rev-parse HEAD': a
\* command that fails rejects, cloneRepo rejects with it, and runSync, which
\* awaits cloneRepo before its try, rejects too.
GitCommand(at, next, ok) ==
    /\ pc[Main] = at
    /\ pc' = [pc EXCEPT ![Main] = IF ok THEN next ELSE "thrown"]
    /\ last' = [NoOp EXCEPT !.op = "sync", !.threw = ~ok]
    /\ UNCHANGED <<step, history, wizardState, user, tmpDirs, activeTmpDirs, local,
                   scanResults>>
    /\ UNCHANGED <<cursorDir, header, content, repo, userPrefix, fs, mcpFile, srcMcp,
                   mcpInstalled, installedAs>>

\* runSync's try block: the enabled translators over the clone.
Translators ==
    LET options == local[Main].options IN
    /\ pc[Main] = "try"
    /\ \E o \in runSync(repo, fs, mcpFile, srcMcp, options) :
        /\ fs' = o.fs
        /\ mcpFile' = o.mcp
        /\ mcpInstalled' = mcpInstalled \cup o.names
        /\ local' = [local EXCEPT ![Main].threw = o.threw]
        /\ last' = [NoOp EXCEPT !.op = "sync", !.prefix = options.prefix,
                                !.dryRun = options.dryRun,
                                !.selection = options.mcpSelection,
                                !.categories = options.categories,
                                !.languages = options.languages,
                                !.threw = o.threw, !.counts = o.counts,
                                !.added = o.added, !.skipped = o.skipped,
                                !.wrote = o.wrote, !.rewritten = o.rewritten]
    /\ pc' = [pc EXCEPT ![Main] = "finally"]
    /\ UNCHANGED <<step, history, wizardState, user, tmpDirs, activeTmpDirs, scanResults>>
    /\ UNCHANGED <<cursorDir, header, content, repo, userPrefix, srcMcp, installedAs>>

\* finally { await cleanup() }: activeTmpDirs.delete(tmpDir) and rm(tmpDir);
\* runSync then returns its result or rejects with what the try block threw.
Cleanup ==
    /\ pc[Main] = "finally"
    /\ activeTmpDirs' = activeTmpDirs \ {local[Main].tmpDir}
    /\ tmpDirs' = tmpDirs \ {local[Main].tmpDir}
    /\ pc' = [pc EXCEPT ![Main] = IF local[Main].threw THEN "thrown" ELSE "returned"]
    /\ UNCHANGED <<step, history, wizardState, user, local, scanResults>>
    /\ UNCHANGED <<cursorDir, header, content, repo, userPrefix, fs, mcpFile, srcMcp,
                   mcpInstalled, installedAs, last>>

InitClone ==
    /\ repo \in {t \in SourceTrees : Cardinality(t) <= 1}
    /\ userPrefix = <<"e">>
    /\ \E env \in Environments :
        /\ fs = env.fs
        /\ mcpFile = env.mcpFile
        /\ srcMcp = env.srcMcp
    /\ mcpInstalled = {}
    /\ installedAs = {}
    /\ content = <<>>
    /\ header = <<>>
    /\ cursorDir = HomeCursor
    /\ Quiet
    /\ last = NoOp

NextClone ==
    \/ \E dryRun \in BOOLEAN : cloneRepo(cmdSync(userPrefix, dryRun))
    \/ \E ok \in BOOLEAN : GitCommand("clone", "rev-parse", ok)
    \/ \E ok \in BOOLEAN : GitCommand("rev-parse", "try", ok)
    \/ Translators
    \/ Cleanup

\* Calls of runSync one after the other, each step of the clone's life apart.
SpecClone == InitClone /\ [][NextClone]_vars

\* C23: temp clone lifecycle.  When runSync has returned or thrown, the temp
\* directory its cloneRepo made is neither on disk nor in activeTmpDirs: after a
\* pass that succeeds, after a translator that throws and after a git command
\* that fails.
C23_TempCloneRemoved ==
    (pc[Main] \in {"returned", "thrown"}) =>
        /\ local[Main].tmpDir \notin tmpDirs
        /\ local[Main].tmpDir \notin activeTmpDirs

----------------------------------------------------------------------------
(* The first-time wizard (SpecWizard, SpecWizardLive) *)

STEP_TARGET_DIR == 0
STEP_REPO_URL == 1
STEP_PREFIX == 2
STEP_CLONE == 3
STEP_CATEGORIES == 4
STEP_LANGUAGES == 5
STEP_MCP == 6
STEP_CONFIRM == 7
STEP_SYNC == 8

\* The value of step that stands for "runWizard has returned or thrown".
Left == STEP_SYNC + 1

\* advance(next): history.push(step); step = next
advance(next) == [ok |-> TRUE, step |-> next, history |-> Append(history, step)]

\* goBack(): false and no change when history is empty, else step = history.pop()
goBack ==
    IF history = <<>> THEN [ok |-> FALSE, step |-> step, history |-> history]
    ELSE [ok |-> TRUE, step |-> history[Len(history)],
          history |-> SubSeq(history, 1, Len(history) - 1)]

\* step = next, history left alone
Jump(next) == [ok |-> TRUE, step |-> next, history |-> history]

\* The steps the user has answered, after an answer at the current prompt.
Answered == Append(user.answered, step)

\* The steps the user has answered, after the wizard went back to step t: the
\* answer at t and the later ones are to be given again.
Withdrawn(t) ==
    LET a == user.answered
        at == {i \in 1..Len(a) : a[i] = t}
    IN  IF at = {} THEN a
        ELSE SubSeq(a, 1, (CHOOSE i \in at : \A j \in at : j <= i) - 1)

\* The part every wizard step has: where the loop goes, the wizard state, what
\* the user has answered, the kind of step.
Goes(to, ws, answered, op) ==
    /\ step' = to.step
    /\ history' = to.history
    /\ wizardState' = ws
    /\ user' = [user EXCEPT !.answered = answered]
    /\ last' = [NoOp EXCEPT !.op = op]
    /\ UNCHANGED <<pc, local, scanResults, repo, userPrefix, srcMcp, installedAs, content,
                   header>>

\* The answers the user gives: anything, or only Esc once the user backs out.
Answers(all) == IF user.escOnly THEN {"esc"} ELSE all \cup {"esc"}

\* cleanupClone(): state.clone.cleanup() and state.clone = undefined
cleanupClone(ws) == [ws EXCEPT !.clone = 0]

\* case STEP_TARGET_DIR.  Esc at the custom path sub-prompt leaves every
\* variable as it is.
TargetDir(answer) ==
    /\ step = STEP_TARGET_DIR
    /\ IF answer = "esc"
       THEN /\ Goes(Jump(Left), wizardState, user.answered, "esc")
            /\ UNCHANGED cursorDir
       ELSE /\ Goes(advance(STEP_REPO_URL), wizardState, Answered, "answer")
            /\ cursorDir' = createContext(HomeCursor).cursorDir
    /\ UNCHANGED <<fs, mcpFile, mcpInstalled, tmpDirs, activeTmpDirs>>

\* case STEP_REPO_URL
RepoUrl(answer) ==
    /\ step = STEP_REPO_URL
    /\ IF answer = "esc"
       THEN Goes(goBack, wizardState, Withdrawn(goBack.step), "esc")
       ELSE Goes(advance(STEP_PREFIX), wizardState, Answered, "answer")
    /\ UNCHANGED <<cursorDir, fs, mcpFile, mcpInstalled, tmpDirs, activeTmpDirs>>

\* case STEP_PREFIX: the next step is the clone, and advance() is not called.
\* The number of temp directories is capped here, where the clone is asked for.
Prefix(answer) ==
    /\ step = STEP_PREFIX
    /\ IF answer = "esc"
       THEN Goes(goBack, wizardState, Withdrawn(goBack.step), "esc")
       ELSE /\ tmpDirs # 1..MaxClones
            /\ Goes(Jump(STEP_CLONE),
                    [wizardState EXCEPT !.prefix = IF answer = "default" THEN <<"e">> ELSE <<>>],
                    Answered, "answer")
    /\ UNCHANGED <<cursorDir, fs, mcpFile, mcpInstalled, tmpDirs, activeTmpDirs>>

\* case STEP_CLONE: cleanupClone(), then cloneRepo.  A clone that fails leaves
\* its temp directory behind and goes back; the wizard returns when there is
\* nothing to go back to.
Clone(ok) ==
    LET held == wizardState.clone
        tmpDir == CHOOSE d \in 1..MaxClones : d \notin (tmpDirs \ {held})
    IN  /\ step = STEP_CLONE
        /\ tmpDirs' = (tmpDirs \ {held}) \cup {tmpDir}
        /\ activeTmpDirs' = (activeTmpDirs \ {held}) \cup {tmpDir}
        /\ IF ok
           THEN Goes(Jump(STEP_CATEGORIES), [wizardState EXCEPT !.clone = tmpDir],
                     user.answered, "auto")
           ELSE Goes(IF goBack.ok THEN goBack ELSE Jump(Left), cleanupClone(wizardState),
                     Withdrawn(goBack.step), "auto")
        /\ UNCHANGED <<cursorDir, fs, mcpFile, mcpInstalled>>

\* The category sets the user picks among (required: true).
CategoryChoices == {{"agents"}, {"rules"}, {"mcp"}, {"rules", "mcp"}}

\* case STEP_CATEGORIES
Categories(answer) ==
    /\ step = STEP_CATEGORIES
    /\ IF answer = {}
       THEN /\ Goes(goBack, cleanupClone(wizardState), Withdrawn(goBack.step), "esc")
            /\ tmpDirs' = tmpDirs \ {wizardState.clone}
            /\ activeTmpDirs' = activeTmpDirs \ {wizardState.clone}
       ELSE /\ Goes(advance(IF "rules" \in answer THEN STEP_LANGUAGES
                            ELSE IF "mcp" \in answer THEN STEP_MCP
                            ELSE STEP_CONFIRM),
                    [wizardState EXCEPT !.categories = answer], Answered, "answer")
            /\ UNCHANGED <<tmpDirs, activeTmpDirs>>
    /\ UNCHANGED <<cursorDir, fs, mcpFile, mcpInstalled>>

\* case STEP_LANGUAGES: no prompt when the clone has no language directory.
Languages(answer) ==
    LET available == discoverLanguages(repo)
        next == IF "mcp" \in wizardState.categories THEN STEP_MCP ELSE STEP_CONFIRM
    IN  /\ step = STEP_LANGUAGES
        /\ IF Len(available) = 0
           THEN Goes(advance(next), [wizardState EXCEPT !.languages = AutoLanguages],
                     user.answered, "auto")
           ELSE IF answer = "esc"
           THEN Goes(goBack, wizardState, Withdrawn(goBack.step), "esc")
           ELSE Goes(advance(next),
                     [wizardState EXCEPT !.languages = LanguageList(available)],
                     Answered, "answer")
        /\ UNCHANGED <<cursorDir, fs, mcpFile, mcpInstalled, tmpDirs, activeTmpDirs>>

\* getInstalledServerNames
getInstalledServerNames(file) == RegistryKeys(file)

\* The servers pickMcpServers offers: the available ones that are not installed.
notInstalled(available, installed) ==
    SelectSeq(available, LAMBDA s : s.name \notin installed)

\* pickMcpServers: "none" without a prompt when nothing is available or
\* everything is installed; at the prompt BACK on Esc, "none" for an empty
\* choice, "all" when everything offered is chosen and nothing was installed.
pickMcpServers(available, installed, answer) ==
    LET offered == notInstalled(available, installed)
        names == {offered[i].name : i \in 1..Len(offered)}
    IN  IF Len(available) = 0 \/ Len(offered) = 0 THEN NoSelection
        ELSE IF answer = "esc" THEN [kind |-> "BACK", names |-> {}]
        ELSE IF answer = "nothing" THEN NoSelection
        ELSE IF Len(offered) = Len(available) THEN AllSelection
        ELSE ListSelection(names)

\* case STEP_MCP
Mcp(answer) ==
    LET available == getAvailableServers(srcMcp).list
        installed == getInstalledServerNames(mcpFile)
        result == pickMcpServers(available, installed, answer)
        asked == Len(notInstalled(available, installed)) > 0
    IN  /\ step = STEP_MCP
        /\ IF result.kind = "BACK"
           THEN Goes(goBack, wizardState, Withdrawn(goBack.step), "esc")
           ELSE Goes(advance(STEP_CONFIRM), [wizardState EXCEPT !.mcpSelection = result],
                     IF asked THEN Answered ELSE user.answered,
                     IF asked THEN "answer" ELSE "auto")
        /\ UNCHANGED <<cursorDir, fs, mcpFile, mcpInstalled, tmpDirs, activeTmpDirs>>

\* case STEP_CONFIRM: Esc and "No" both go back.  The pass clones once more,
\* so the number of temp directories is capped here too.
Confirm(answer) ==
    /\ step = STEP_CONFIRM
    /\ IF answer = "esc"
       THEN Goes(goBack, wizardState, Withdrawn(goBack.step), "esc")
       ELSE IF answer = "no"
       THEN Goes(goBack, wizardState, Withdrawn(goBack.step), "answer")
       ELSE /\ tmpDirs # 1..MaxClones
            /\ Goes(Jump(STEP_SYNC), wizardState, Answered, "answer")
    /\ UNCHANGED <<cursorDir, fs, mcpFile, mcpInstalled, tmpDirs, activeTmpDirs>>

\* case STEP_SYNC: runSync with the wizard's choices, which makes a clone of
\* its own (and leaves its temp directory behind when git fails), then
\* cleanupClone() in the finally block; the wizard returns or throws.
Sync(ok) ==
    LET options == SyncOptions(wizardState.prefix, wizardState.categories,
                               wizardState.languages, wizardState.mcpSelection, FALSE)
        held == wizardState.clone
    IN  /\ step = STEP_SYNC
        /\ step' = Left
        /\ history' = history
        /\ wizardState' = cleanupClone(wizardState)
        /\ user' = user
        /\ IF ok
           THEN /\ tmpDirs' = tmpDirs \ {held}
                /\ activeTmpDirs' = activeTmpDirs \ {held}
                /\ \E o \in runSync(repo, fs, mcpFile, srcMcp, options) :
                    /\ fs' = o.fs
                    /\ mcpFile' = o.mcp
                    /\ mcpInstalled' = mcpInstalled \cup o.names
                    /\ last' = [NoOp EXCEPT !.op = "sync", !.prefix = options.prefix,
                                            !.selection = options.mcpSelection,
                                            !.categories = options.categories,
                                            !.languages = options.languages,
                                            !.threw = o.threw, !.counts = o.counts,
                                            !.added = o.added, !.skipped = o.skipped,
                                            !.wrote = o.wrote, !.rewritten = o.rewritten]
           ELSE /\ tmpDirs' = (tmpDirs \ {held}) \cup {mkdtemp}
                /\ activeTmpDirs' = (activeTmpDirs \ {held}) \cup {mkdtemp}
                /\ last' = [NoOp EXCEPT !.op = "sync", !.threw = TRUE]
                /\ UNCHANGED <<fs, mcpFile, mcpInstalled>>
        /\ UNCHANGED <<cursorDir, pc, local, scanResults, repo, userPrefix, srcMcp,
                       installedAs, content, header>>

\* The user decides to back out: from now on every prompt is answered with Esc.
BackOut ==
    /\ step # Left
    /\ ~user.escOnly
    /\ user' = [user EXCEPT !.escOnly = TRUE]
    /\ last' = [NoOp EXCEPT !.op = "backOut"]
    /\ UNCHANGED <<step, history, wizardState, tmpDirs, activeTmpDirs, pc, local,
                   scanResults>>
    /\ UNCHANGED <<cursorDir, header, content, repo, userPrefix, fs, mcpFile, srcMcp,
                   mcpInstalled, installedAs>>

\* The clones the wizard is run on: with and without language directories;
\* the service files: none, one installable server; the registry: none, or
\* that server installed already.
InitWizard ==
    /\ repo \in {t \in SourceTrees : Cardinality(t) <= 1 /\ \A i \in t : i.cat = "rules"}
    /\ userPrefix = <<"e">>
    /\ fs = EmptyTarget
    /\ mcpFile \in {MissingFile, ObjectFile("memory" :> UserServer, FALSE)}
    /\ srcMcp \in {[state |-> "missing", servers |-> <<>>], SampleSource}
    /\ mcpInstalled = {}
    /\ installedAs = {}
    /\ content = <<>>
    /\ header = <<>>
    /\ cursorDir = HomeCursor
    /\ Quiet
    /\ last = NoOp

NextWizard ==
    \/ \E answer \in Answers({"user"}) : TargetDir(answer)
    \/ \E answer \in Answers({"url"}) : RepoUrl(answer)
    \/ \E answer \in Answers({"default", "none"}) : Prefix(answer)
    \/ \E ok \in BOOLEAN : Clone(ok)
    \/ \E answer \in (IF user.escOnly THEN {} ELSE CategoryChoices) \cup {{}} :
            Categories(answer)
    \/ \E answer \in Answers({"chosen"}) : Languages(answer)
    \/ \E answer \in Answers({"chosen", "nothing"}) : Mcp(answer)
    \/ \E answer \in Answers({"yes", "no"}) : Confirm(answer)
    \/ \E ok \in BOOLEAN : Sync(ok)
    \/ BackOut

\* One run of the wizard.
SpecWizard == InitWizard /\ [][NextWizard]_vars

\* The wizard's loop keeps running: a prompt is answered, an automatic step is
\* taken.
SpecWizardLive == SpecWizard /\ WF_vars(NextWizard)

\* C24: wizard back-navigation.  Esc at an interactive step returns to the
\* interactive step the user answered immediately before it (Esc at the
\* categories step returns to the prefix step), and Esc at the first step leaves
\* the wizard.
C24_EscReturnsToPrevious ==
    [][last'.op = "esc" =>
            IF step = STEP_TARGET_DIR THEN step' = Left
            ELSE /\ user.answered # <<>>
                 /\ step' = user.answered[Len(user.answered)]]_vars

\* C25: wizard back-navigation makes progress.  Once the user answers Esc at
\* every prompt, the wizard reaches the first step and is left.
C25_EscLeavesWizard == user.escOnly ~> (step = Left)

----------------------------------------------------------------------------
(* Path references in a body (SpecPaths) *)

\* The names the references are made with: a plain one, one with a hyphen, one
\* that is a command name too, one with a dot.
PathNames == {<<"a">>, <<"a", "-", "b">>, <<"plan">>, <<"a", ".", "b">>}

\* ~/.claude/agents/<n>.md and ~/.claude/skills/<n>/, and what each is to become.
AgentPath(root, p, n) == <<root, "agents/">> \o p \o n \o <<".md">>
SkillPath(root, p, n) == <<root, "skills/">> \o p \o n \o <<"/">>

PathFragments ==
    {AgentPath("~/.claude/", <<>>, n) : n \in PathNames}
    \cup {SkillPath("~/.claude/", <<>>, n) : n \in PathNames}
    \cup {<<" ">>, <<"see", " ">>}

PathTexts == {Flat(t) : t \in SeqsUpTo(PathFragments, MaxText)}

\* the number of places of s where pat is
Count(s, pat) == Cardinality({i \in 1..Len(s) : At(s, i, pat)})

\* the places of s where an agent or skill path has the new root and not the prefix
BarePaths(s, prefix) ==
    {i \in 1..Len(s) :
        /\ \E dir \in {"agents/", "skills/"} : At(s, i, <<"~/.cursor/", dir>>)
        /\ ~At(s, i + 2, DashPrefix(prefix))}

InitPaths ==
    /\ repo = {}
    /\ userPrefix \in {<<>>, <<"e">>}
    /\ fs = EmptyTarget
    /\ mcpFile = MissingFile
    /\ srcMcp = SampleSource
    /\ mcpInstalled = {}
    /\ installedAs = {}
    /\ content \in PathTexts
    /\ header = <<>>
    /\ cursorDir = HomeCursor
    /\ Quiet
    /\ last = NoOp

NextPaths == TransformContent(userPrefix)

\* transformContent on bodies that refer to agents and skills by path.
SpecPaths == InitPaths /\ [][NextPaths]_vars

\* C26: the path rewrites stay effective.  transformContent turns every
\* ~/.claude/agents/<n>.md of the body into ~/.cursor/agents/{prefix-}<n>.md and
\* every ~/.claude/skills/<n>/ into ~/.cursor/skills/{prefix-}<n>/, and leaves
\* no agent or skill path with the new root and without the prefix.
C26_PathRewritesEffective ==
    [][last'.op = "transform" =>
            /\ \A n \in PathNames :
                /\ Count(content, AgentPath("~/.claude/", <<>>, n))
                        <= Count(content', AgentPath("~/.cursor/", DashPrefix(last'.prefix), n))
                /\ Count(content, SkillPath("~/.claude/", <<>>, n))
                        <= Count(content', SkillPath("~/.cursor/", DashPrefix(last'.prefix), n))
            /\ BarePaths(content', last'.prefix) = {}]_vars

\* The same for names made of word characters and hyphens only.
C26_WordNamesRewritten ==
    [][last'.op = "transform" =>
            ((\A i \in 1..Len(content) : content[i] # ".") =>
                /\ \A n \in PathNames :
                    /\ Count(content, AgentPath("~/.claude/", <<>>, n))
                            <= Count(content', AgentPath("~/.cursor/", DashPrefix(last'.prefix), n))
                    /\ Count(content, SkillPath("~/.claude/", <<>>, n))
                            <= Count(content', SkillPath("~/.cursor/", DashPrefix(last'.prefix), n))
                /\ BarePaths(content', last'.prefix) = {})]_vars

----------------------------------------------------------------------------
(* Section stripping (SpecStrip) *)

\* The most lines a document has.
MaxLines == 4

\* STRIP_SECTIONS[sourcePath]: the titles of the patterns, in the list's order
\* (each pattern is /^## <title>[\s\S]*?(?=^## |\n$)/m); no list for other paths.
STRIP_SECTIONS(sourcePath) ==
    CASE sourcePath = "rules/common/performance.md" ->
            <<"Model Selection Strategy", "Extended Thinking + Plan Mode">>
      [] sourcePath = "rules/common/agents.md" -> <<"Parallel Task Execution">>
      [] OTHER -> <<>>

\* The text "## <title>"
Heading(title) == <<"##", " ", title>>

\* (?=^## |\n$) with the m flag, at place e: a line starts here with "## ", or
\* a newline is here and the line after it is empty or the text ends.
StripLookahead(s, e) ==
    \/ e \in LineStarts(s) /\ At(s, e, <<"##", " ">>)
    \/ /\ e <= Len(s)
       /\ s[e] = "\n"
       /\ (e = Len(s) \/ s[e + 1] = "\n")

\* The places where the pattern of the title matches: a line start with the
\* heading, and some later place where the lookahead holds.
StripMatches(s, title) ==
    {i \in LineStarts(s) :
        /\ At(s, i, Heading(title))
        /\ \E e \in (i + Len(Heading(title)))..(Len(s) + 1) : StripLookahead(s, e)}

\* result.replace(pattern, ''): the pattern is not global, so the first match
\* is removed; the lazy [\s\S]*? ends at the first place where the lookahead holds.
StripSection(s, title) ==
    IF StripMatches(s, title) = {} THEN s
    ELSE LET i == CHOOSE k \in StripMatches(s, title) :
                        \A o \in StripMatches(s, title) : k <= o
             ends == {e \in (i + Len(Heading(title)))..(Len(s) + 1) : StripLookahead(s, e)}
             e == CHOOSE k \in ends : \A o \in ends : k <= o
         IN  SubSeq(s, 1, i - 1) \o From(s, e)

RECURSIVE StripAll(_, _)
\* for (const pattern of strips) result = result.replace(pattern, '')
StripAll(s, titles) ==
    IF titles = <<>> THEN s ELSE StripAll(StripSection(s, Head(titles)), Tail(titles))

\* transformContent(content, prefix, sourcePath)
transformContentOf(s, prefix, sourcePath) ==
    CollapseBlankLines(
        ApplyAll(getContentTransforms(prefix), prefix,
                 StripAll(s, STRIP_SECTIONS(sourcePath))))

\* The lines documents are made of: the headings of two named sections and of
\* another section, two lines of text, an empty line.
DocLines ==
    {Heading(t) \o <<"\n">> :
        t \in {"Model Selection Strategy", "Parallel Task Execution", "Other"}}
    \cup {<<"x", "\n">>, <<"y", "\n">>, <<"\n">>}

Documents == {Flat(t) : t \in SeqsUpTo(DocLines, MaxLines)}

SourcePaths == {"rules/common/performance.md", "rules/common/agents.md", "rules/common/r.md"}

\* transformContent(raw, prefix, sourcePath), as translateRules calls it
StripContent(sourcePath) ==
    /\ content' = transformContentOf(content, userPrefix, sourcePath)
    /\ last' = [NoOp EXCEPT !.op = "strip", !.prefix = userPrefix, !.kind = sourcePath]
    /\ UNCHANGED <<procVars, cursorDir, header, repo, userPrefix, fs, mcpFile, srcMcp,
                   mcpInstalled, installedAs>>

InitStrip ==
    /\ repo = {}
    /\ userPrefix = <<"e">>
    /\ fs = EmptyTarget
    /\ mcpFile = MissingFile
    /\ srcMcp = SampleSource
    /\ mcpInstalled = {}
    /\ installedAs = {}
    /\ content \in Documents
    /\ header = <<>>
    /\ cursorDir = HomeCursor
    /\ Quiet
    /\ last = NoOp

NextStrip == \E sourcePath \in SourcePaths : StripContent(sourcePath)

\* transformContent on the documents of rules/common/.
SpecStrip == InitStrip /\ [][NextStrip]_vars

\* The place after the section whose heading is at place i: the next line that
\* starts with "## ", or the end of the text.
SectionEnd(s, i) ==
    LET next == {k \in LineStarts(s) : k > i /\ At(s, k, <<"##", " ">>)}
    IN  IF next = {} THEN Len(s) + 1 ELSE CHOOSE k \in next : \A o \in next : k <= o

\* s without the first section with this title.
WithoutSection(s, title) ==
    LET at == {i \in LineStarts(s) : At(s, i, Heading(title))}
    IN  IF at = {} THEN s
        ELSE LET i == CHOOSE k \in at : \A o \in at : k <= o
             IN  SubSeq(s, 1, i - 1) \o From(s, SectionEnd(s, i))

RECURSIVE WithoutSections(_, _)
WithoutSections(s, titles) ==
    IF titles = <<>> THEN s
    ELSE WithoutSections(WithoutSection(s, Head(titles)), Tail(titles))

\* The text of a document: its tokens without the line ends.
TextOf(s) == SelectSeq(s, LAMBDA t : t # "\n")

\* C27: section strip.  For a document registered in STRIP_SECTIONS the output
\* of transformContent is the document without each named section, heading
\* line through the last line before the next level-2 heading or the end, and
\* with all the text outside those sections.
C27_WholeSectionStripped ==
    [][last'.op = "strip" =>
            TextOf(content') = TextOf(WithoutSections(content, STRIP_SECTIONS(last'.kind)))]_vars

----------------------------------------------------------------------------
(* The skill translator on skill directories with subdirectories (SpecSkills) *)

InitSkills ==
    /\ repo \in SUBSET {i \in SourceItems : i.cat = "skills"}
    /\ userPrefix \in {<<>>, <<"e">>}
    /\ cursorDir \in TargetDirs
    /\ fs = EmptyTarget
    /\ mcpFile = MissingFile
    /\ srcMcp = SampleSource
    /\ mcpInstalled = {}
    /\ installedAs = {}
    /\ content = <<>>
    /\ header = <<>>
    /\ Quiet
    /\ last = NoOp

NextSkills == \E dryRun \in BOOLEAN : Translate("skills", AutoLanguages, dryRun)

\* translateSkills on the skill directories of one source tree.
SpecSkills == InitSkills /\ [][NextSkills]_vars

\* The markdown files below the subdirectories of the skill directories that
\* translateSkills handles: not denied, with SKILL.md.
NestedMarkdown(tree) ==
    {i \in tree :
        /\ i.cat = "skills"
        /\ i.file # "SKILL.md"
        /\ SkipKey("skills", i.name, "") \notin SKIP_FILES
        /\ \E x \in tree : x.cat = "skills" /\ x.name = i.name /\ x.file = "SKILL.md"}

\* C28: nested markdown of a skill.  After translateSkills, not a dry run, every
\* markdown file in a subdirectory below a handled skill directory, at whatever
\* depth, is in the target at the same relative path under skills/{name}/ as
\* the rewritten document, and is in the returned list.
C28_NestedMarkdownCopied ==
    (/\ last.op = "translate"
     /\ last.categories = {"skills"}
     /\ ~last.threw
     /\ ~last.dryRun) =>
        \A i \in NestedMarkdown(repo) :
            LET path == Inside(prefixName(last.prefix, i.name), SubPath(i.file))
            IN  /\ Exists(fs, path)
                /\ fs[path] = Doc("skills", i.name \o <<"/", i.file>>, last.prefix)
                /\ path \in Range(last.written)

\* The same for the files directly in a subdirectory.
C28_FirstLevelCopied ==
    (/\ last.op = "translate"
     /\ last.categories = {"skills"}
     /\ ~last.threw
     /\ ~last.dryRun) =>
        \A i \in NestedMarkdown(repo) :
            LET path == Inside(prefixName(last.prefix, i.name), SubPath(i.file))
            IN  Len(SubPath(i.file)) = 2 =>
                    /\ Exists(fs, path)
                    /\ fs[path] = Doc("skills", i.name \o <<"/", i.file>>, last.prefix)
                    /\ path \in Range(last.written)

----------------------------------------------------------------------------
(* Two merges into one registry file (SpecMerge) *)

\* A service file with two installable servers.
MergeSource ==
    [state |-> "ok",
     servers |-> <<[name |-> "memory", config |-> PlainServer],
                   [name |-> "fetch", config |-> NodeServer]>>]

\* What a call of translateMcp holds between its awaits: what it read
\* (before: the keys of the registry it read) and what its loop made of it.
MergeLocal(selection, before, st) ==
    [tmpDir |-> 0, selection |-> selection, before |-> before, config |-> st.config,
     added |-> st.added, skipped |-> st.skipped, names |-> st.names, threw |-> st.threw]

\* translateMcp up to its last await, not a dry run: getAvailableServers, the
\* early returns, resolveSelectedServers, await readMcpConfig and the loop over
\* toInstall, which changes the call's own copy of the registry only.
MergeRead(p, selection) ==
    LET avail == getAvailableServers(srcMcp)
        nothing == MergeState(EmptyConfig, 0, 0, avail.threw, {})
        toInstall == resolveSelectedServers(avail.list, selection)
        cursorMcp == readMcpConfig(mcpFile)
        st == MergeLoop(MergeState(cursorMcp, 0, 0, FALSE, {}), toInstall, 1, FALSE)
        returns == avail.threw \/ Len(avail.list) = 0 \/ selection.kind = "none"
    IN  /\ pc[p] \in {"idle", "done"}
        /\ pc' = [pc EXCEPT ![p] = IF returns THEN "done" ELSE "merged"]
        /\ local' = [local EXCEPT ![p] =
                        IF returns THEN MergeLocal(selection, {}, nothing)
                        ELSE MergeLocal(selection, RegistryKeys(mcpFile), st)]
        /\ last' = [NoOp EXCEPT !.op = "read", !.selection = selection]
        /\ UNCHANGED <<step, history, wizardState, user, tmpDirs, activeTmpDirs, scanResults>>
        /\ UNCHANGED <<cursorDir, header, content, repo, userPrefix, fs, mcpFile, srcMcp,
                       mcpInstalled, installedAs>>

\* translateMcp from its last await on: if (!dryRun && added > 0) await
\* writeMcpConfig(ctx.mcpFile, cursorMcp), with the copy the call made when it
\* read; then it returns its counts.
MergeWrite(p) ==
    LET wrote == ~local[p].threw /\ ShouldWrite(FALSE, local[p].added) IN
    /\ pc[p] = "merged"
    /\ pc' = [pc EXCEPT ![p] = "done"]
    /\ mcpFile' = IF wrote THEN writeMcpConfig(mcpFile, local[p].config) ELSE mcpFile
    /\ mcpInstalled' = mcpInstalled \cup (IF wrote THEN local[p].names ELSE {})
    /\ last' = [NoOp EXCEPT !.op = "mcp", !.selection = local[p].selection,
                            !.threw = local[p].threw,
                            !.added = IF local[p].threw THEN 0 ELSE local[p].added,
                            !.skipped = IF local[p].threw THEN 0 ELSE local[p].skipped,
                            !.wrote = wrote]
    /\ UNCHANGED <<step, history, wizardState, user, tmpDirs, activeTmpDirs, local,
                   scanResults>>
    /\ UNCHANGED <<cursorDir, header, content, repo, userPrefix, fs, srcMcp, installedAs>>

\* The registry files the merges start from: none, and well-formed ones with
\* the user's own entries.
InitMerge ==
    /\ repo = {}
    /\ userPrefix = <<"e">>
    /\ fs = EmptyTarget
    /\ mcpFile \in {MissingFile, ObjectFile("other" :> UserServer, FALSE),
                    ObjectFile("memory" :> UserServer, TRUE)}
    /\ srcMcp = MergeSource
    /\ mcpInstalled = {}
    /\ installedAs = {}
    /\ content = <<>>
    /\ header = <<>>
    /\ cursorDir = HomeCursor
    /\ Quiet
    /\ last = NoOp

MergeSelections ==
    {NoSelection, AllSelection, ListSelection({"memory"}), ListSelection({"fetch"})}

NextMerge ==
    \/ \E p \in Procs, selection \in MergeSelections : MergeRead(p, selection)
    \/ \E p \in Procs : MergeWrite(p)

\* Two calls of translateMcp on one mcp.json, interleaved at their awaits.
SpecMerge == InitMerge /\ [][NextMerge]_vars

\* C29: no lost update.  When no merge is in progress, the registry holds every
\* entry a finished merge added and every entry that merge found in it.
C29_NoLostUpdate ==
    (\A p \in Procs : pc[p] = "done") =>
        \A p \in Procs :
            (~local[p].threw /\ local[p].added > 0) =>
                local[p].names \cup local[p].before \subseteq RegistryKeys(mcpFile)

----------------------------------------------------------------------------
(* The returning-user menu (SpecMenu) *)

\* scanAll(prefix) where the project directory is the user directory or has no
\* .cursor/: the scan of ~/.cursor/ when it found something, else nothing.
scanAll(f, prefix) ==
    LET result == scanDirectory(f, prefix) IN
    IF result.totalFiles > 0
    THEN <<[cursorDir |-> HomeCursor, totalFiles |-> result.totalFiles]>>
    ELSE <<>>

\* The part every menu action has: the position in runMenu's loop and what the
\* action was.
MenuGoes(to, op, threw) ==
    /\ pc' = [pc EXCEPT ![Main] = to]
    /\ last' = [NoOp EXCEPT !.op = op, !.prefix = userPrefix, !.threw = threw]
    /\ UNCHANGED <<step, history, wizardState, user, local, repo, userPrefix, srcMcp,
                   installedAs, content, header, cursorDir>>

\* scanResults = scanAll(prefix); if (scanResults.length === 0) scanResults = initialScanResults
Rescan(f) ==
    IF Len(scanAll(f, userPrefix)) = 0 THEN local[Main].initialScanResults
    ELSE scanAll(f, userPrefix)

\* isCancel(choice) || choice === 'exit', at the menu and at "What next?";
\* 'menu' at "What next?" loops.
MenuLeave(answer) ==
    /\ pc[Main] \in {"menu", "next"}
    /\ answer = "menu" => pc[Main] = "next"
    /\ MenuGoes(IF answer = "menu" THEN "menu" ELSE "exit", "choice", FALSE)
    /\ UNCHANGED <<fs, mcpFile, mcpInstalled, tmpDirs, activeTmpDirs, scanResults>>

\* The passes the menu runs: menuResync's, and what a run of the wizard does
\* before it returns (nothing, or one pass with the choices made in it).
MenuPasses(action) ==
    IF action = "resync"
    THEN {SyncOptions(userPrefix, ALL_CATEGORIES, AutoLanguages, AllSelection, FALSE)}
    ELSE {SyncOptions(p, c, AutoLanguages, AllSelection, FALSE) :
            p \in {<<>>, <<"e">>}, c \in CategoryChoices}

\* action === 'new' and action.startsWith('resync:'): the pass, a clone of
\* which git fails or in which a translator throws ends the menu with the
\* exception; then the scan results are refreshed.
MenuSync(action, ok) ==
    /\ pc[Main] = "menu"
    /\ action = "resync" => Len(scanResults) > 0
    /\ \/ /\ action = "new"
          /\ ok
          /\ MenuGoes("next", action, FALSE)
          /\ scanResults' = Rescan(fs)
          /\ UNCHANGED <<fs, mcpFile, mcpInstalled, tmpDirs, activeTmpDirs>>
       \/ /\ ~ok
          /\ MenuGoes("thrown", action, TRUE)
          /\ tmpDirs' = tmpDirs \cup {mkdtemp}
          /\ activeTmpDirs' = activeTmpDirs \cup {mkdtemp}
          /\ UNCHANGED <<fs, mcpFile, mcpInstalled, scanResults>>
       \/ /\ ok
          /\ \E options \in MenuPasses(action) :
                \E o \in runSync(repo, fs, mcpFile, srcMcp, options) :
                    /\ fs' = o.fs
                    /\ mcpFile' = o.mcp
                    /\ mcpInstalled' = mcpInstalled \cup o.names
                    /\ MenuGoes(IF o.threw THEN "thrown" ELSE "next", action, o.threw)
                    /\ scanResults' = IF o.threw THEN scanResults ELSE Rescan(o.fs)
          /\ UNCHANGED <<tmpDirs, activeTmpDirs>>

\* action === 'status'
MenuStatus ==
    /\ pc[Main] = "menu"
    /\ MenuGoes("next", "status", FALSE)
    /\ UNCHANGED <<fs, mcpFile, mcpInstalled, tmpDirs, activeTmpDirs, scanResults>>

\* action === 'clean': menuClean asks, runs runClean on every scanned
\* directory, and the scan results are refreshed with what scanAll gives.
MenuClean(ok) ==
    /\ pc[Main] = "menu"
    /\ IF ~ok \/ Len(scanResults) = 0
       THEN /\ MenuGoes("next", "clean", FALSE)
            /\ fs' = fs
            /\ scanResults' = scanAll(fs, userPrefix)
       ELSE \E o \in runClean(fs, userPrefix) :
            /\ fs' = o.fs
            /\ MenuGoes(IF o.threw THEN "thrown" ELSE "next", "clean", o.threw)
            /\ scanResults' = IF o.threw THEN scanResults ELSE scanAll(o.fs, userPrefix)
    /\ UNCHANGED <<mcpFile, mcpInstalled, tmpDirs, activeTmpDirs>>

\* action === 'mcp': menuMcp(scanResults[0], prefix).  Without a first scan
\* result scan is undefined and createContext(scan.cursorDir) throws a
\* TypeError.  Else the clone (ok: git succeeds), the picker and translateMcp.
MenuMcp(ok, answer) ==
    LET available == getAvailableServers(srcMcp)
        installed == getInstalledServerNames(mcpFile)
        selection == pickMcpServers(available.list, installed, answer)
        r == translateMcp(srcMcp, mcpFile, FALSE, selection)
    IN  /\ pc[Main] = "menu"
        /\ IF Len(scanResults) = 0
           THEN /\ MenuGoes("thrown", "mcp", TRUE)
                /\ UNCHANGED <<mcpFile, mcpInstalled, tmpDirs, activeTmpDirs>>
           ELSE IF ~ok
           THEN /\ MenuGoes("thrown", "mcp", TRUE)
                /\ tmpDirs' = tmpDirs \cup {mkdtemp}
                /\ activeTmpDirs' = activeTmpDirs \cup {mkdtemp}
                /\ UNCHANGED <<mcpFile, mcpInstalled>>
           ELSE IF available.threw
           THEN /\ MenuGoes("thrown", "mcp", TRUE)
                /\ UNCHANGED <<mcpFile, mcpInstalled, tmpDirs, activeTmpDirs>>
           ELSE IF Len(available.list) = 0 \/ selection.kind \in {"BACK", "none"}
           THEN /\ MenuGoes("next", "mcp", FALSE)
                /\ UNCHANGED <<mcpFile, mcpInstalled, tmpDirs, activeTmpDirs>>
           ELSE /\ MenuGoes(IF r.threw THEN "thrown" ELSE "next", "mcp", r.threw)
                /\ mcpFile' = r.file
                /\ mcpInstalled' = mcpInstalled \cup r.names
                /\ UNCHANGED <<tmpDirs, activeTmpDirs>>
        /\ UNCHANGED <<fs, scanResults>>

\* cli.ts runs the menu when scanAll(prefix) found something: the target holds
\* an item installed with the prefix.
InitMenu ==
    /\ repo \in {t \in SourceTrees : Cardinality(t) <= 1 /\ \A i \in t : i.cat = "agents"}
    /\ userPrefix = <<"e">>
    /\ \E root \in Roots : fs = Put(EmptyTarget, ItemWrites(root, userPrefix, <<"b">>))
    /\ mcpFile \in {MissingFile, ObjectFile("memory" :> UserServer, FALSE)}
    /\ srcMcp \in {[state |-> "missing", servers |-> <<>>], SampleSource}
    /\ mcpInstalled = {}
    /\ installedAs = {}
    /\ content = <<>>
    /\ header = <<>>
    /\ cursorDir = HomeCursor
    /\ step = 0
    /\ history = <<>>
    /\ wizardState = [clone |-> 0, prefix |-> <<>>, categories |-> {},
                      languages |-> AutoLanguages, mcpSelection |-> AllSelection]
    /\ user = [answered |-> <<>>, escOnly |-> FALSE]
    /\ tmpDirs = {}
    /\ activeTmpDirs = {}
    /\ pc = [p \in Procs |-> IF p = Main THEN "menu" ELSE "idle"]
    /\ scanResults = scanAll(fs, userPrefix)
    /\ local = [p \in Procs |-> IF p = Main
                                THEN [tmpDir |-> 0, initialScanResults |-> scanResults]
                                ELSE [tmpDir |-> 0]]
    /\ last = NoOp

NextMenu ==
    \/ \E answer \in {"exit", "menu"} : MenuLeave(answer)
    \/ \E action \in {"new", "resync"}, ok \in BOOLEAN : MenuSync(action, ok)
    \/ MenuStatus
    \/ \E ok \in BOOLEAN : MenuClean(ok)
    \/ \E ok \in BOOLEAN, answer \in {"esc", "chosen", "nothing"} : MenuMcp(ok, answer)

\* One run of the menu.
SpecMenu == InitMenu /\ [][NextMenu]_vars

\* C30: the menu has a target for MCP management.  Whenever 'Manage MCP
\* servers' is dispatched, after any earlier menu actions, the list of scan
\* results is not empty, so menuMcp gets a scan result.
C30_McpHasTarget ==
    [][(pc[Main] = "menu" /\ last'.op = "mcp") => Len(scanResults) > 0]_vars

====
